---- MODULE Spec2Model ----
(***************************************************************************)
(* Upload / delete orchestration of claude-uploader.                       *)
(*                                                                         *)
(* The foreground (egui thread) owns UploadState and polls two mpsc        *)
(* channels in update_state; each run is a background thread that walks    *)
(* the folder, probes the credentials, uploads the files one at a time     *)
(* and sends one FileStatus per step.  A worker position ("pc") names the  *)
(* await or the channel send the thread is about to perform, so every      *)
(* send and every network response is a step of its own and interleaves    *)
(* with the foreground.                                                    *)
(***************************************************************************)
EXTENDS Integers, Sequences, FiniteSets, TLC

VARIABLES
    curl_text,                \* ClaudeUploader.curl_text, a sequence of characters
    curl_parser,              \* ClaudeUploader.curl_parser
    folder_path,              \* ClaudeUploader.folder_path and the tree below it
    progress,                 \* UploadState.progress
    current_file,             \* UploadState.current_file
    file_statuses,            \* UploadState.file_statuses
    uploaded_files,           \* UploadState.uploaded_files
    error_message,            \* UploadState.error_message
    is_uploading,             \* UploadState.is_uploading
    is_deleting,              \* UploadState.is_deleting
    status_receiver,          \* UploadState.status_receiver (0 = None, r = channel of run r)
    uploaded_files_receiver,  \* UploadState.uploaded_files_receiver
    keep_config,              \* UploadState.keep_config
    selected_sections,        \* UploadState.selected_sections
    chan,                     \* status channels, one per run: events sent and not yet received
    fchan,                    \* uploaded-files channels, one per run
    workers,                  \* the background threads, one per run
    runs,                     \* number of threads spawned so far
    fg_pc,                    \* foreground position: "idle" or inside update_state's drain loop
    call                      \* a call made on its own: its arguments and what it returned

vars == << curl_text, curl_parser, folder_path, progress, current_file, file_statuses,
           uploaded_files, error_message, is_uploading, is_deleting,
           status_receiver, uploaded_files_receiver, keep_config, selected_sections,
           chan, fchan, workers, runs, fg_pc, call >>

\* ------------------------------------------------------------------ bounds
MaxFiles == 2
MaxRejected == 1
MaxRuns == 2

Runs == 1..MaxRuns

\* ------------------------------------------------------------------ values
None == "None"
NoName == << "none", 0 >>

\* What fs::read_to_string returns for a file: its text, or an error (content that
\* is not UTF-8, a file that cannot be opened).  Each read is an input of its own.
\* File names are taken to be valid UTF-8.
ReadResults == { "text", "unreadable" }

\* A folder is the number of files below it that pass is_supported_file, in walk
\* order: file 1 .. file n, and the number of files below it that do not (an
\* ignored directory, an ignored name, an extension that is not supported); at
\* most MaxFiles files in all.
NoFolder == [some |-> FALSE, n |-> 0, rejected |-> 0]

\* Option<ClaudeKeepConfig>: None, or the section names, the patterns of each
\* name and the folder the file was read from.
NoConfig == [some |-> FALSE, sections |-> << >>, patterns |-> << >>, folder_path |-> << >>]

\* No call made on its own.
NoCall == [op |-> "none", content |-> << >>, file |-> << >>, result |-> << >>]

Folders ==
    { f \in [some : { TRUE }, n : 0..MaxFiles, rejected : 0..MaxRejected] :
          f.n + f.rejected <= MaxFiles }

\* The two markers CurlParser::parse searches for, as sequences of characters.
OrgMarker ==
    << "/", "o", "r", "g", "a", "n", "i", "z", "a", "t", "i", "o", "n", "s", "/" >>
ProjMarker == << "/", "p", "r", "o", "j", "e", "c", "t", "s", "/" >>

\* The request texts the user pastes while runs are driven: nothing, a text
\* without the organization segment, one without the project segment, and one
\* with both ("/organizations/o/projects/p/").
EmptyText == << >>
NoOrgText == ProjMarker \o << "p", "/" >>
NoProjText == OrgMarker \o << "o", "/" >>
GoodText == OrgMarker \o << "o" >> \o ProjMarker \o << "p", "/" >>
CurlTexts == { EmptyText, NoOrgText, NoProjText, GoodText }

\* UploadStatus and FileStatus
Ev(name, status, msg) == [name |-> name, status |-> status, msg |-> msg]
Processing(name) == Ev(name, "Processing", "")
Success(name) == Ev(name, "Success", "")
Error(name, msg) == Ev(name, "Error", msg)
Skipped(name, msg) == Ev(name, "Skipped", msg)

FileName(i) == << "file", i >>
TestName(i) == << "Testing connection with", i >>
AuthName == << "Authentication test", 0 >>
EmptyName == << "", 0 >>

UploadedFile(name, uuid) == [name |-> name, uuid |-> uuid]

\* ActionProgress
NotStarted ==
    [kind |-> "NotStarted", total |-> 0, current |-> 0, successful |-> 0,
     failed |-> 0, skipped |-> 0]
Uploading(total, current, successful, failed, skipped) ==
    [kind |-> "Uploading", total |-> total, current |-> current,
     successful |-> successful, failed |-> failed, skipped |-> skipped]
Deleting(total, current, successful, failed) ==
    [kind |-> "Deleting", total |-> total, current |-> current,
     successful |-> successful, failed |-> failed, skipped |-> 0]
Completed(total, successful, failed, skipped) ==
    [kind |-> "Completed", total |-> total, current |-> 0,
     successful |-> successful, failed |-> failed, skipped |-> skipped]

\* HTTP responses: a status with a body class, or no response at all.
Statuses == { 200, 201, 401, 403, 500 }
Bodies == { "json", "text403", "text401", "text" }
Transport == [status |-> 0, body |-> "transport"]
Responses == [status : Statuses, body : Bodies] \cup { Transport }

\* reqwest StatusCode::is_success: any 2xx
IsSuccess(resp) == resp.status \in { 200, 201 }

\* ------------------------------------------------------------------ channels
\* Mutant of ChanSend: every thread sends on the channel whose receiver the
\* state holds now.
ChanSendShared(r, ev) ==
    IF status_receiver # 0 THEN [chan EXCEPT ![status_receiver] = Append(@, ev)] ELSE chan

\* Sender::send(..).unwrap_or_default() / let _ = send(..): the value is queued
\* while the receiver is alive and is dropped silently once it is gone.
ChanSend(r, ev) ==
    IF status_receiver = r THEN [chan EXCEPT ![r] = Append(@, ev)] ELSE chan

FilesSend(r, files) ==
    IF uploaded_files_receiver = r THEN [fchan EXCEPT ![r] = Append(@, files)] ELSE fchan

\* ------------------------------------------------------------------ the reducer
\* Mutant of UploadingCount: a Skipped status is not counted.
UploadingCountSkippedLost(p, st) ==
    CASE st = "Processing" -> [p EXCEPT !.current = @ + 1]
      [] st = "Success" -> [p EXCEPT !.successful = @ + 1]
      [] st = "Error" -> [p EXCEPT !.failed = @ + 1]
      [] OTHER -> p

\* update_state, the Uploading arm: the counter the event moves.
UploadingCount(p, st) ==
    CASE st = "Processing" -> [p EXCEPT !.current = @ + 1]
      [] st = "Success" -> [p EXCEPT !.successful = @ + 1]
      [] st = "Error" -> [p EXCEPT !.failed = @ + 1]
      [] st = "Skipped" -> [p EXCEPT !.skipped = @ + 1]

\* update_state, the Deleting arm: Skipped falls into `_ => {}`.
DeletingCount(p, st) ==
    CASE st = "Processing" -> [p EXCEPT !.current = @ + 1]
      [] st = "Success" -> [p EXCEPT !.successful = @ + 1]
      [] st = "Error" -> [p EXCEPT !.failed = @ + 1]
      [] OTHER -> p

\* Mutant of UploadingDone: the comparison is strict.
UploadingDoneStrict(p) == (p.successful + p.failed + p.skipped) > p.total

\* The completion test of each arm.
UploadingDone(p) == (p.successful + p.failed + p.skipped) >= p.total
DeletingDone(p) == (p.successful + p.failed) >= p.total

\* Mutant of OtherArm: a status folded outside a running state is counted.
OtherArmCounts(p, st) ==
    CASE st = "Success" -> [p EXCEPT !.successful = @ + 1]
      [] st = "Error" -> [p EXCEPT !.failed = @ + 1]
      [] OTHER -> p

\* The arm for NotStarted and Completed: `_ => {}`.
OtherArm(p, st) == p

\* One iteration of the drain loop on progress: the value of self.state.progress
\* after the event, whether or not the run completed with it.
FoldProgress(p, st) ==
    CASE p.kind = "Uploading" ->
            LET q == UploadingCount(p, st)
            IN  IF UploadingDone(q)
                THEN Completed(q.total, q.successful, q.failed, q.skipped)
                ELSE q
      [] p.kind = "Deleting" ->
            LET q == DeletingCount(p, st)
            IN  IF DeletingDone(q)
                THEN Completed(q.total, q.successful, q.failed, 0)
                ELSE q
      [] OTHER -> OtherArm(p, st)

\* Mutant of ShouldComplete: the flag is never set.
ShouldCompleteNever(p, st) == FALSE

\* should_complete: only the two running arms can set it.
ShouldComplete(p, st) ==
    /\ p.kind \in { "Uploading", "Deleting" }
    /\ FoldProgress(p, st).kind = "Completed"

\* Mutant of HasFailures: the failed counter is not looked at.
HasFailuresNever(p) == FALSE

\* has_failures of the completion state.
HasFailures(p) == p.kind = "Completed" /\ p.failed > 0

FailuresMessage == "Operation completed with failures"

\* error_message after the iteration.
FoldErrorMessage(p, st, msg) ==
    IF ShouldComplete(p, st) /\ HasFailures(FoldProgress(p, st))
    THEN FailuresMessage
    ELSE msg

\* update_state, first half: one try_recv on the uploaded-files channel, then the
\* drain loop is entered when a status receiver is installed.
UpdateStateBegin ==
    /\ fg_pc = "idle"
    /\ IF uploaded_files_receiver # 0 /\ fchan[uploaded_files_receiver] # << >>
       THEN /\ uploaded_files' = Head(fchan[uploaded_files_receiver])
            /\ uploaded_files_receiver' = 0
            /\ fchan' = [fchan EXCEPT ![uploaded_files_receiver] = << >>]
       ELSE UNCHANGED << uploaded_files, uploaded_files_receiver, fchan >>
    /\ fg_pc' = IF status_receiver # 0 THEN "drain" ELSE "idle"
    /\ UNCHANGED << curl_text, curl_parser, folder_path, progress, current_file,
                    file_statuses, error_message, is_uploading, is_deleting, status_receiver,
                    keep_config, selected_sections, chan, workers, runs, call >>

\* Mutant of UpdateStateRecv: the loop waits for a status (recv in place of
\* try_recv).
UpdateStateRecvBlocking ==
    /\ fg_pc = "drain"
    /\ chan[status_receiver] # << >>
    /\ LET status == Head(chan[status_receiver])
           done == ShouldComplete(progress, status.status)
       IN  /\ chan' = [chan EXCEPT ![status_receiver] = Tail(@)]
           /\ progress' = FoldProgress(progress, status.status)
           /\ current_file' = status.name
           /\ file_statuses' = Append(file_statuses, status)
           /\ error_message' = FoldErrorMessage(progress, status.status, error_message)
           /\ is_uploading' = IF done THEN FALSE ELSE is_uploading
           /\ is_deleting' = IF done THEN FALSE ELSE is_deleting
           /\ fg_pc' = "drain"
    /\ UNCHANGED << curl_text, curl_parser, folder_path, uploaded_files, status_receiver,
                    uploaded_files_receiver, keep_config, selected_sections, fchan,
                    workers, runs, call >>

\* update_state, one `while let Ok(status) = receiver.try_recv()` iteration; an
\* empty channel ends the loop and the call.
UpdateStateRecv ==
    /\ fg_pc = "drain"
    /\ IF chan[status_receiver] = << >>
       THEN /\ fg_pc' = "idle"
            /\ UNCHANGED << progress, current_file, file_statuses, error_message,
                            is_uploading, is_deleting, chan >>
       ELSE LET status == Head(chan[status_receiver])
                done == ShouldComplete(progress, status.status)
            IN  /\ chan' = [chan EXCEPT ![status_receiver] = Tail(@)]
                /\ progress' = FoldProgress(progress, status.status)
                /\ current_file' = status.name
                /\ file_statuses' = Append(file_statuses, status)
                /\ error_message' = FoldErrorMessage(progress, status.status, error_message)
                /\ is_uploading' = IF done THEN FALSE ELSE is_uploading
                /\ is_deleting' = IF done THEN FALSE ELSE is_deleting
                /\ fg_pc' = "drain"
    /\ UNCHANGED << curl_text, curl_parser, folder_path, uploaded_files, status_receiver,
                    uploaded_files_receiver, keep_config, selected_sections, fchan,
                    workers, runs, call >>

\* ------------------------------------------------------------------ request text
\* str::find: the index of the first occurrence of sub in s, 0 when there is none.
Find(sub, s) ==
    LET at == { i \in 1..(Len(s) - Len(sub) + 1) : SubSeq(s, i, i + Len(sub) - 1) = sub }
    IN  IF at = { } THEN 0 ELSE CHOOSE i \in at : \A j \in at : i <= j

\* An Option<String>.
NoId == [some |-> FALSE, id |-> << >>]
SomeId(id) == [some |-> TRUE, id |-> id]

\* find(marker).and_then(..): the text between the first marker and the next '/'.
IdAfter(marker, text) ==
    LET start == Find(marker, text)
        remaining == SubSeq(text, start + Len(marker), Len(text))
        end == Find(<< "/" >>, remaining)
    IN  IF start = 0 \/ end = 0 THEN NoId ELSE SomeId(SubSeq(remaining, 1, end - 1))

\* HeaderValue::from_str accepts the tab and the bytes from 32 on except 127; of
\* the characters used here only the line feed and the carriage return are
\* refused.
HeaderValueOk(value) == \A i \in 1..Len(value) : value[i] \notin { "\n", "\r" }

\* The header names and values parse writes, as characters.
ContentTypeName ==
    << "c", "o", "n", "t", "e", "n", "t", "-", "t", "y", "p", "e" >>
OriginName ==
    << "o", "r", "i", "g", "i", "n" >>
RefererName ==
    << "r", "e", "f", "e", "r", "e", "r" >>
UserAgentName ==
    << "u", "s", "e", "r", "-", "a", "g", "e", "n", "t" >>
CookieName ==
    << "c", "o", "o", "k", "i", "e" >>
JsonType ==
    << "a", "p", "p", "l", "i", "c", "a", "t", "i", "o", "n", "/", "j", "s", "o", "n" >>
ClaudeOrigin ==
    << "h", "t", "t", "p", "s", ":", "/", "/", "c", "l", "a", "u", "d", "e", ".", "a",
       "i" >>
RefererPrefix ==
    << "h", "t", "t", "p", "s", ":", "/", "/", "c", "l", "a", "u", "d", "e", ".", "a",
       "i", "/", "p", "r", "o", "j", "e", "c", "t", "/" >>
DefaultUserAgent ==
    << "M", "o", "z", "i", "l", "l", "a", "/", "5", ".", "0", " ", "(", "W", "i", "n",
       "d", "o", "w", "s", " ", "N", "T", " ", "1", "0", ".", "0", ";", " ", "W", "i",
       "n", "6", "4", ";", " ", "x", "6", "4", ")", " ", "A", "p", "p", "l", "e", "W",
       "e", "b", "K", "i", "t", "/", "5", "3", "7", ".", "3", "6", " ", "(", "K", "H",
       "T", "M", "L", ",", " ", "l", "i", "k", "e", " ", "G", "e", "c", "k", "o", ")",
       " ", "C", "h", "r", "o", "m", "e", "/", "1", "2", "0", ".", "0", ".", "0", ".",
       "0", " ", "S", "a", "f", "a", "r", "i", "/", "5", "3", "7", ".", "3", "6" >>

\* str::starts_with and str::contains.
StartsWith(s, prefix) == Len(s) >= Len(prefix) /\ SubSeq(s, 1, Len(prefix)) = prefix
Contains(s, sub) == Find(sub, s) # 0

\* str::split: the pieces between the non-overlapping occurrences of sep, found
\* from the left.
RECURSIVE Split(_, _)
Split(s, sep) ==
    LET i == Find(sep, s)
    IN  IF i = 0 THEN << s >>
        ELSE << SubSeq(s, 1, i - 1) >> \o Split(SubSeq(s, i + Len(sep), Len(s)), sep)

\* str::lines: the pieces between line feeds, each without a trailing carriage
\* return, and no last empty piece.
StripCr(line) ==
    IF line # << >> /\ line[Len(line)] = "\r" THEN SubSeq(line, 1, Len(line) - 1) ELSE line
Lines(text) ==
    LET pieces == Split(text, << "\n" >>)
        kept == IF pieces[Len(pieces)] = << >> THEN SubSeq(pieces, 1, Len(pieces) - 1)
                ELSE pieces
    IN  [i \in 1..Len(kept) |-> StripCr(kept[i])]

\* str::trim_start_matches and str::trim_end_matches: the pattern is removed as
\* long as it is found at that end.
RECURSIVE TrimStartMatches(_, _)
TrimStartMatches(s, prefix) ==
    IF StartsWith(s, prefix) THEN TrimStartMatches(SubSeq(s, Len(prefix) + 1, Len(s)), prefix)
    ELSE s
RECURSIVE TrimEndMatches(_, _)
TrimEndMatches(s, c) ==
    IF s # << >> /\ s[Len(s)] = c THEN TrimEndMatches(SubSeq(s, 1, Len(s) - 1), c) ELSE s

\* str::to_lowercase, on the letters used here.
LowerChar(c) ==
    IF c = "U" THEN "u" ELSE IF c = "A" THEN "a" ELSE IF c = "O" THEN "o"
    ELSE IF c = "M" THEN "m" ELSE IF c = "D" THEN "d" ELSE c
ToLowercase(s) == [i \in 1..Len(s) |-> LowerChar(s[i])]

\* HeaderName::from_str: a non-empty name of token characters; of the characters
\* used here the space, ':', '/', '\', the line feed and the carriage return are
\* not.
HeaderNameOk(key) ==
    /\ key # << >>
    /\ \A i \in 1..Len(key) : key[i] \notin { " ", ":", "/", "\\", "\n", "\r" }

\* HeaderMap::insert: the value replaces what the name held.
Insert(headers, name, value) ==
    [n \in (DOMAIN headers) \cup { name } |-> IF n = name THEN value ELSE headers[n]]

HPrefix2 == << " ", " ", "-", "H", " ", "'" >>
HPrefix1 == << " ", "-", "H", " ", "'" >>

\* One iteration of the header loop: a line that starts with one of the two
\* prefixes, whose content splits at ": " into exactly two parts that make a
\* valid name and a valid value, is inserted under the lowercased name.
HeaderLine(headers, line) ==
    IF ~StartsWith(line, HPrefix2) /\ ~StartsWith(line, HPrefix1) THEN headers
    ELSE LET content == TrimEndMatches(
                            TrimStartMatches(TrimStartMatches(line, HPrefix2), HPrefix1), "'")
             parts == Split(content, << ":", " " >>)
         IN  IF Len(parts) # 2 THEN headers
             ELSE IF HeaderNameOk(ToLowercase(parts[1])) /\ HeaderValueOk(parts[2])
             THEN Insert(headers, ToLowercase(parts[1]), parts[2])
             ELSE headers

\* One iteration of the cookie loop: on a line that holds "--cookie" or "-b ",
\* the text between the first two quotes becomes the cookie header.
CookieLine(headers, line) ==
    IF ~Contains(line, << "-", "-", "c", "o", "o", "k", "i", "e" >>)
       /\ ~Contains(line, << "-", "b", " " >>)
    THEN headers
    ELSE LET cookie_start == Find(<< "'" >>, line)
             rest == SubSeq(line, cookie_start + 1, Len(line))
             cookie_end == Find(<< "'" >>, rest)
         IN  IF cookie_start = 0 \/ cookie_end = 0 THEN headers
             ELSE IF HeaderValueOk(SubSeq(rest, 1, cookie_end - 1))
             THEN Insert(headers, CookieName, SubSeq(rest, 1, cookie_end - 1))
             ELSE headers

\* `for line in curl_text.lines()` with one of the two loop bodies.
RECURSIVE HeaderLoop(_, _)
HeaderLoop(headers, lines) ==
    IF lines = << >> THEN headers
    ELSE HeaderLoop(HeaderLine(headers, Head(lines)), Tail(lines))
RECURSIVE CookieLoop(_, _)
CookieLoop(headers, lines) ==
    IF lines = << >> THEN headers
    ELSE CookieLoop(CookieLine(headers, Head(lines)), Tail(lines))

\* The headers collected from the text: the header lines, then the cookie
\* lines when no header line gave a cookie.
ExtractedHeaders(text) ==
    LET headers == HeaderLoop(<< >>, Lines(text))
    IN  IF CookieName \in DOMAIN headers THEN headers
        ELSE CookieLoop(headers, Lines(text))

\* "Add essential headers": content-type, origin and referer are inserted, the
\* default user-agent only when the name is not there.
EssentialHeaders(headers, proj_id) ==
    LET derived == Insert(Insert(Insert(headers, ContentTypeName, JsonType),
                                 OriginName, ClaudeOrigin),
                          RefererName, RefererPrefix \o proj_id)
    IN  IF UserAgentName \in DOMAIN derived THEN derived
        ELSE Insert(derived, UserAgentName, DefaultUserAgent)

\* CurlParser: three optional fields; headers is the map from names to values.
NewParser ==
    [organization_id |-> NoId, project_id |-> NoId,
     headers |-> [some |-> FALSE, map |-> << >>]]

OrgError == "Could not find organization ID in curl command"
ProjError == "Could not find project ID in curl command"

\* Mutant of Parse: the organization is stored as soon as it is found.
ParseStoresEarly(parser, text) ==
    LET org == IdAfter(OrgMarker, text)
        proj == IdAfter(ProjMarker, text)
    IN  IF ~org.some THEN [result |-> "err", error |-> OrgError, parser |-> parser]
        ELSE IF ~proj.some
        THEN [result |-> "err", error |-> ProjError,
              parser |-> [parser EXCEPT !.organization_id = org]]
        ELSE IF ~HeaderValueOk(proj.id)
        THEN [result |-> "panic", error |-> None, parser |-> parser]
        ELSE [result |-> "ok", error |-> None,
              parser |-> [organization_id |-> org, project_id |-> proj,
                          headers |-> [some |-> TRUE,
                                       map |-> EssentialHeaders(ExtractedHeaders(text),
                                                                proj.id)]]]

\* Mutant of Parse: the headers of a successful call are inserted into the map
\* the parser already holds.
ParseKeepsHeaders(parser, text) ==
    LET org == IdAfter(OrgMarker, text)
        proj == IdAfter(ProjMarker, text)
        found == EssentialHeaders(ExtractedHeaders(text), proj.id)
    IN  IF ~org.some THEN [result |-> "err", error |-> OrgError, parser |-> parser]
        ELSE IF ~proj.some THEN [result |-> "err", error |-> ProjError, parser |-> parser]
        ELSE IF ~HeaderValueOk(proj.id)
        THEN [result |-> "panic", error |-> None, parser |-> parser]
        ELSE [result |-> "ok", error |-> None,
              parser |-> [organization_id |-> org, project_id |-> proj,
                          headers |-> [some |-> TRUE,
                                       map |-> [n \in DOMAIN parser.headers.map \cup DOMAIN found |->
                                                   IF n \in DOMAIN found THEN found[n]
                                                   ELSE parser.headers.map[n]]]]]

\* CurlParser::parse: Err when an identifier is missing, a panic when the referer
\* cannot be built from the project (the unwrap of HeaderValue::from_str), else
\* the three fields are written.
Parse(parser, text) ==
    LET org == IdAfter(OrgMarker, text)
        proj == IdAfter(ProjMarker, text)
    IN  IF ~org.some THEN [result |-> "err", error |-> OrgError, parser |-> parser]
        ELSE IF ~proj.some THEN [result |-> "err", error |-> ProjError, parser |-> parser]
        ELSE IF ~HeaderValueOk(proj.id)
        THEN [result |-> "panic", error |-> None, parser |-> parser]
        ELSE [result |-> "ok", error |-> None,
              parser |-> [organization_id |-> org, project_id |-> proj,
                          headers |-> [some |-> TRUE,
                                       map |-> EssentialHeaders(ExtractedHeaders(text),
                                                                proj.id)]]]

\* Mutant of ParseOk: the result of parse is not looked at.
ParseOkAlways(text) == TRUE

\* parse of each text of CurlTexts, evaluated once.
ParsedTexts == [t \in CurlTexts |-> Parse(NewParser, t)]

\* self.curl_parser.parse(&self.curl_text) in the two handlers, whose text is one
\* of CurlTexts: the fields are written on success and left alone otherwise.
ParseCurlText(parser, text) ==
    IF ParsedTexts[text].result = "ok" THEN ParsedTexts[text].parser ELSE parser

\* `if let Err(e) = self.curl_parser.parse(&self.curl_text)` does not match.
ParseOk(text) == ParsedTexts[text].result # "err"

\* format!("Error parsing curl command: {}", e)
ParseError(text) ==
    IF ParsedTexts[text].error = OrgError
    THEN "Error parsing curl command: Could not find organization ID in curl command"
    ELSE "Error parsing curl command: Could not find project ID in curl command"

\* ------------------------------------------------------------------ workers
\* A thread: its position, its loop index, what it captured (folder, dels), the
\* records it has collected (uploaded), its private channel (buf), and two
\* histories: the statuses process_files has passed to its sender (emitted) and
\* the files whose create request could not reach the remote (unreachable).
NoWorker ==
    [kind |-> "none", pc |-> "done", idx |-> 0, folder |-> NoFolder,
     dels |-> << >>, uploaded |-> << >>, buf |-> << >>, emitted |-> << >>,
     unreachable |-> { }]

\* Walk::new(folder_path): every file below the folder, the supported ones first.
WalkFiles(folder) == 1..(folder.n + folder.rejected)

\* is_supported_file for a file of the walk.
IsSupportedFile(folder, i) == i <= folder.n

\* The files the walk keeps (files_to_process), as indices: a file that
\* is_supported_file rejects is not pushed.
FilesToProcess(folder) == { i \in WalkFiles(folder) : IsSupportedFile(folder, i) }

\* count_supported_files: the same walk, counted.
CountSupportedFiles(folder) == Cardinality(FilesToProcess(folder))

\* The thread start_upload spawns: process_files, then the two final sends.
UploadWorker(folder) ==
    [NoWorker EXCEPT !.kind = "upload", !.pc = "pf_start", !.folder = folder]

\* Mutant of DeleteWorker: the first record is not captured.
DeleteWorkerTail(files, folder) ==
    [NoWorker EXCEPT !.kind = "delete", !.pc = IF Len(files) > 1 THEN "del_wait" ELSE "pf_start",
                     !.idx = 1, !.dels = Tail(files), !.folder = folder]

\* The thread delete_and_reupload spawns; it starts by awaiting the first delete.
DeleteWorker(files, folder) ==
    [NoWorker EXCEPT !.kind = "delete", !.pc = "del_wait", !.idx = 1,
                     !.dels = files, !.folder = folder]

\* std::thread::spawn of thread r; a thread that has ended leaves nothing behind.
Spawn(ws, r, w) ==
    [q \in Runs |-> IF q = r THEN w
                    ELSE IF ws[q].pc = "done" THEN NoWorker
                    ELSE ws[q]]

\* ------------------------------------------------------------------ the UI's gates
\* render: the Upload Files button, for the text and the folder the user has
\* entered by the time of the click.
CanStartUpload(text, folder) ==
    /\ progress.kind # "Completed"
    /\ text # EmptyText
    /\ folder.some
    /\ ~is_uploading
    /\ ~is_deleting

\* render: the Delete & Reupload button.
CanDeleteAndReupload(text, folder) ==
    /\ progress.kind = "Completed"
    /\ ~is_uploading
    /\ ~is_deleting
    /\ text # EmptyText
    /\ folder.some

\* render: the Clear All button.
CanReset == progress.kind = "Completed"

UserFolders == IF folder_path.some THEN { folder_path } ELSE Folders
UserTexts == CurlTexts \ { EmptyText }

\* A receiver that is replaced or cleared is dropped with what it still held.
DropReceiver(c, r) == IF r = 0 THEN c ELSE [c EXCEPT ![r] = << >>]

\* ------------------------------------------------------------------ start_upload
\* The text box and the folder picker are read only by the two handlers below:
\* what they hold at the click is the handler's input.  A folder, once picked, is
\* kept until Clear All.
\* The body of start_upload, with the text and the folder it finds.
StartUpload(text, folder) ==
    /\ curl_text' = text
    /\ curl_parser' = ParseCurlText(curl_parser, text)
    /\ folder_path' = folder
    /\ file_statuses' = << >>
    /\ uploaded_files' = << >>
    /\ IF ~ParseOk(text)
       THEN /\ error_message' = ParseError(text)
            /\ is_uploading' = FALSE
            /\ UNCHANGED << progress, status_receiver, uploaded_files_receiver,
                            chan, fchan, workers, runs >>
       ELSE IF folder.some
       THEN /\ runs < MaxRuns
            /\ runs' = runs + 1
            /\ error_message' = None
            /\ is_uploading' = TRUE
            /\ status_receiver' = runs'
            /\ uploaded_files_receiver' = runs'
            /\ chan' = DropReceiver(chan, status_receiver)
            /\ fchan' = DropReceiver(fchan, uploaded_files_receiver)
            /\ progress' = Uploading(CountSupportedFiles(folder), 0, 0, 0, 0)
            /\ workers' = Spawn(workers, runs', UploadWorker(folder))
       ELSE /\ error_message' = "No folder selected"
            /\ is_uploading' = FALSE
            /\ UNCHANGED << progress, status_receiver, uploaded_files_receiver,
                            chan, fchan, workers, runs >>
    /\ UNCHANGED << current_file, is_deleting, keep_config, selected_sections >>

\* start_upload as the UI calls it: behind the gate of the Upload Files button.
start_upload ==
    /\ fg_pc = "idle"
    /\ \E text \in UserTexts, folder \in UserFolders :
          /\ CanStartUpload(text, folder)
          /\ StartUpload(text, folder)
    /\ UNCHANGED << fg_pc, call >>

\* ------------------------------------------------------------------ delete_and_reupload
delete_and_reupload ==
    /\ fg_pc = "idle"
    /\ \E text \in UserTexts, folder \in UserFolders :
          /\ CanDeleteAndReupload(text, folder)
          /\ curl_text' = text
          /\ folder_path' = folder
          /\ curl_parser' = IF uploaded_files = << >> THEN curl_parser
                            ELSE ParseCurlText(curl_parser, text)
          /\ IF uploaded_files = << >>
             THEN /\ error_message' = "No files to delete"
                  /\ UNCHANGED << file_statuses, is_deleting, progress, status_receiver,
                                  chan, workers, runs >>
             ELSE IF ~ParseOk(text)
             THEN /\ file_statuses' = << >>
                  /\ error_message' = ParseError(text)
                  /\ is_deleting' = FALSE
                  /\ UNCHANGED << progress, status_receiver, chan, workers, runs >>
             ELSE /\ runs < MaxRuns
                  /\ runs' = runs + 1
                  /\ file_statuses' = << >>
                  /\ error_message' = None
                  /\ is_deleting' = TRUE
                  /\ status_receiver' = runs'
                  /\ chan' = DropReceiver(chan, status_receiver)
                  /\ progress' = Deleting(Len(uploaded_files), 0, 0, 0)
                  /\ workers' = Spawn(workers, runs', DeleteWorker(uploaded_files, folder))
    /\ UNCHANGED << current_file, uploaded_files, is_uploading, uploaded_files_receiver,
                    keep_config, selected_sections, fchan, fg_pc, call >>

\* ------------------------------------------------------------------ reset_upload_state
reset_upload_state ==
    /\ fg_pc = "idle"
    /\ CanReset
    /\ curl_text' = EmptyText
    /\ curl_parser' = NewParser
    /\ folder_path' = NoFolder
    /\ progress' = NotStarted
    /\ current_file' = NoName
    /\ file_statuses' = << >>
    /\ uploaded_files' = << >>
    /\ error_message' = None
    /\ is_uploading' = FALSE
    /\ is_deleting' = FALSE
    /\ status_receiver' = 0
    /\ uploaded_files_receiver' = 0
    /\ keep_config' = NoConfig
    /\ selected_sections' = << >>
    /\ chan' = DropReceiver(chan, status_receiver)
    /\ fchan' = DropReceiver(fchan, uploaded_files_receiver)
    /\ UNCHANGED << workers, runs, fg_pc, call >>

\* ------------------------------------------------------------------ process_files
\* What process_files' caller does once it returns: start_upload's thread sends
\* the records and the final status; delete_and_reupload's thread forwards what
\* its private channel holds, and ends when that is empty.
AfterProcessFiles(w) ==
    IF w.kind = "upload" THEN "send_files"
    ELSE IF w.buf = << >> THEN "done" ELSE "forward"

\* The `for file_path in files_to_process` loop moves to file i, or ends.
NextFile(w, i) ==
    IF i \notin FilesToProcess(w.folder)
    THEN [w EXCEPT !.idx = i, !.pc = AfterProcessFiles(w)]
    ELSE [w EXCEPT !.idx = i, !.pc = "file_begin"]

\* status_sender.send inside process_files: start_upload hands it the state's
\* channel, delete_and_reupload a private one (upload_sender).
Emit(r, w, ev) ==
    IF w.kind = "upload"
    THEN /\ chan' = ChanSend(r, ev)
         /\ workers' = [workers EXCEPT ![r] = [w EXCEPT !.emitted = Append(@, ev)]]
    ELSE /\ chan' = chan
         /\ workers' = [workers EXCEPT ![r] =
                            [w EXCEPT !.emitted = Append(@, ev), !.buf = Append(@, ev)]]

\* The same, followed by the return of process_files.
EmitAndReturn(r, w, ev) ==
    IF w.kind = "upload"
    THEN /\ chan' = ChanSend(r, ev)
         /\ workers' = [workers EXCEPT ![r] =
                            [w EXCEPT !.emitted = Append(@, ev), !.pc = "send_files"]]
    ELSE /\ chan' = chan
         /\ workers' = [workers EXCEPT ![r] =
                            [w EXCEPT !.emitted = Append(@, ev), !.buf = Append(@, ev),
                                      !.pc = "forward"]]

\* The same, followed by the next iteration of the file loop.
EmitAndNext(r, w, ev) ==
    LET v == [w EXCEPT !.emitted = Append(@, ev),
                       !.buf = IF w.kind = "upload" THEN @ ELSE Append(@, ev)]
    IN  /\ chan' = IF w.kind = "upload" THEN ChanSend(r, ev) ELSE chan
        /\ workers' = [workers EXCEPT ![r] = NextFile(v, w.idx + 1)]

WorkerFrame ==
    UNCHANGED << curl_text, curl_parser, folder_path, progress, current_file,
                 file_statuses, uploaded_files, error_message, is_uploading, is_deleting,
                 status_receiver, uploaded_files_receiver, keep_config, selected_sections,
                 runs, fg_pc, call >>

\* The walk, then the "Testing connection" status when a file was found.
PfStart(r) ==
    LET w == workers[r]
    IN  /\ w.pc = "pf_start"
        /\ IF FilesToProcess(w.folder) = { }
           THEN /\ workers' = [workers EXCEPT ![r] = [w EXCEPT !.pc = AfterProcessFiles(w)]]
                /\ chan' = chan
           ELSE Emit(r, [w EXCEPT !.pc = "probe_pre"], Processing(TestName(1)))
        /\ fchan' = fchan
        /\ WorkerFrame

\* test_authentication up to its request: the name and the content of the first
\* file.  An Err makes process_files send one Error and return.
ProbePre(r) ==
    LET w == workers[r]
    IN  /\ w.pc = "probe_pre"
        /\ \E content \in ReadResults :
              IF content = "unreadable"
              THEN EmitAndReturn(r, w, Error(AuthName, "Failed to read file"))
              ELSE /\ workers' = [workers EXCEPT ![r] = [w EXCEPT !.pc = "probe_wait"]]
                   /\ chan' = chan
        /\ fchan' = fchan
        /\ WorkerFrame

\* The three classes of message test_authentication builds; the generic one
\* carries the status of the response.
ForbiddenMessage == "Authentication failed (403 Forbidden)"
UnauthorizedMessage == "Authentication failed (401 Unauthorized)"
GenericMessage(status) ==
    CASE status = 401 -> "Upload failed with status: 401"
      [] status = 403 -> "Upload failed with status: 403"
      [] OTHER -> "Upload failed with status: 500"

\* The message test_authentication builds from a non-success response: the class
\* is read off the response body.
ProbeErrorMessage(resp) ==
    IF resp.body = "text403" THEN ForbiddenMessage
    ELSE IF resp.body = "text401" THEN UnauthorizedMessage
    ELSE GenericMessage(resp.status)

\* test_authentication, the response of its create request.
ProbeResponse(r) ==
    LET w == workers[r]
    IN  /\ w.pc = "probe_wait"
        /\ \E resp \in Responses :
              IF resp = Transport
              THEN EmitAndReturn(r, w, Error(AuthName, "Failed to send request"))
              ELSE IF IsSuccess(resp)
              THEN /\ workers' = [workers EXCEPT ![r] =
                                    IF resp.body = "json"
                                    THEN [w EXCEPT !.pc = "probe_del_wait"]
                                    ELSE NextFile(w, 1)]
                   /\ chan' = chan
              ELSE EmitAndReturn(r, w, Error(AuthName, ProbeErrorMessage(resp)))
        /\ fchan' = fchan
        /\ WorkerFrame

\* delete_test_file: whatever the delete request returns is ignored.
ProbeCleanup(r) ==
    LET w == workers[r]
    IN  /\ w.pc = "probe_del_wait"
        /\ workers' = [workers EXCEPT ![r] = NextFile(w, 1)]
        /\ UNCHANGED << chan, fchan >>
        /\ WorkerFrame

\* The loop body's first send: Processing for file idx.
FileBegin(r) ==
    LET w == workers[r]
    IN  /\ w.pc = "file_begin"
        /\ Emit(r, [w EXCEPT !.pc = "file_pre"], Processing(FileName(w.idx)))
        /\ fchan' = fchan
        /\ WorkerFrame

\* upload_file up to its request.  The is_supported_file re-check passes for a
\* file the walk kept; unreadable content sends Error and returns Err, which the
\* caller drops.
FilePre(r) ==
    LET w == workers[r]
    IN  /\ w.pc = "file_pre"
        /\ \E content \in ReadResults :
              IF content = "unreadable"
              THEN EmitAndNext(r, w, Error(FileName(w.idx), "Failed to read file"))
              ELSE /\ workers' = [workers EXCEPT ![r] = [w EXCEPT !.pc = "file_wait"]]
                   /\ chan' = chan
        /\ fchan' = fchan
        /\ WorkerFrame

\* Mutant of UploadOutcome: a 200/201 is a Success whatever its body.
UploadOutcomeAnyBody(name, resp) ==
    CASE resp.status \in { 200, 201 } -> Success(name)
      [] resp.status = 403 -> Error(name, "Access forbidden (403)")
      [] resp.status = 401 -> Error(name, "Unauthorized (401)")
      [] OTHER -> Error(name, "Upload failed with status: 500")

\* The status upload_file sends for a response of the create request.
UploadOutcome(name, resp) ==
    CASE resp.status \in { 200, 201 } /\ resp.body = "json" -> Success(name)
      [] resp.status \in { 200, 201 } -> Error(name, "Failed to parse upload response")
      [] resp.status = 403 -> Error(name, "Access forbidden (403)")
      [] resp.status = 401 -> Error(name, "Unauthorized (401)")
      [] OTHER -> Error(name, "Upload failed with status: 500")

\* upload_file, the response of the create request.  `.send().await.map_err(..)?`
\* returns Err on a transport failure, and no status is sent for it.
FileResponse(r) ==
    LET w == workers[r]
        name == FileName(w.idx)
    IN  /\ w.pc = "file_wait"
        /\ \E resp \in Responses :
              IF resp = Transport
              THEN /\ workers' = [workers EXCEPT ![r] =
                                    NextFile([w EXCEPT !.unreachable = @ \cup { w.idx }],
                                             w.idx + 1)]
                   /\ chan' = chan
              ELSE LET ev == UploadOutcome(name, resp)
                       v == IF ev.status = "Success"
                            THEN [w EXCEPT !.uploaded =
                                      Append(@, UploadedFile(name, << r, w.idx >>))]
                            ELSE w
                   IN  EmitAndNext(r, v, ev)
        /\ fchan' = fchan
        /\ WorkerFrame

\* start_upload's thread after process_files: the records, then the final status
\* with the empty name.
SendFiles(r) ==
    LET w == workers[r]
    IN  /\ w.pc = "send_files"
        /\ fchan' = FilesSend(r, w.uploaded)
        /\ workers' = [workers EXCEPT ![r] = [w EXCEPT !.pc = "send_final"]]
        /\ chan' = chan
        /\ WorkerFrame

SendFinal(r) ==
    LET w == workers[r]
    IN  /\ w.pc = "send_final"
        /\ chan' = ChanSend(r, Success(EmptyName))
        /\ workers' = [workers EXCEPT ![r] = [w EXCEPT !.pc = "done"]]
        /\ fchan' = fchan
        /\ WorkerFrame

\* ------------------------------------------------------------------ the delete thread
\* delete_file: the status for one record.
DeleteResponses == { "success", "status", "transport" }

\* Mutant of DeleteOutcome: a request that could not be sent is not an error.
DeleteOutcomeTransportLost(name, resp) ==
    CASE resp = "success" -> Success(name)
      [] resp = "status" -> Error(name, "Failed to delete with status")
      [] OTHER -> Skipped(name, "Failed to send delete request")

DeleteOutcome(name, resp) ==
    CASE resp = "success" -> Success(name)
      [] resp = "status" -> Error(name, "Failed to delete with status")
      [] OTHER -> Error(name, "Failed to send delete request")

\* Mutant of NextDelete: the loop leaves one record early.
NextDeleteEarly(w, i) ==
    IF i < Len(w.dels) THEN [w EXCEPT !.idx = i, !.pc = "del_wait"]
    ELSE IF w.folder.some THEN [w EXCEPT !.idx = i, !.pc = "pf_start"]
    ELSE [w EXCEPT !.idx = i, !.pc = "done"]

\* After the last record: process_files when a folder was captured, else the end.
NextDelete(w, i) ==
    IF i <= Len(w.dels) THEN [w EXCEPT !.idx = i, !.pc = "del_wait"]
    ELSE IF w.folder.some THEN [w EXCEPT !.idx = i, !.pc = "pf_start"]
    ELSE [w EXCEPT !.idx = i, !.pc = "done"]

DeleteResponse(r) ==
    LET w == workers[r]
    IN  /\ w.pc = "del_wait"
        /\ \E resp \in DeleteResponses :
              chan' = ChanSend(r, DeleteOutcome(w.dels[w.idx].name, resp))
        /\ workers' = [workers EXCEPT ![r] = NextDelete(w, w.idx + 1)]
        /\ fchan' = fchan
        /\ WorkerFrame

\* The forwarding loop: one try_recv on the private channel and one send.
Forward(r) ==
    LET w == workers[r]
    IN  /\ w.pc = "forward"
        /\ chan' = ChanSend(r, Head(w.buf))
        /\ workers' = [workers EXCEPT ![r] =
                          [w EXCEPT !.buf = Tail(@),
                                    !.pc = IF Tail(w.buf) = << >> THEN "done" ELSE "forward"]]
        /\ fchan' = fchan
        /\ WorkerFrame

WorkerStep(r) ==
    \/ PfStart(r)
    \/ ProbePre(r)
    \/ ProbeResponse(r)
    \/ ProbeCleanup(r)
    \/ FileBegin(r)
    \/ FilePre(r)
    \/ FileResponse(r)
    \/ SendFiles(r)
    \/ SendFinal(r)
    \/ DeleteResponse(r)
    \/ Forward(r)

\* ------------------------------------------------------------------ the program
Init ==
    /\ curl_text = EmptyText
    /\ curl_parser = NewParser
    /\ folder_path = NoFolder
    /\ progress = NotStarted
    /\ current_file = NoName
    /\ file_statuses = << >>
    /\ uploaded_files = << >>
    /\ error_message = None
    /\ is_uploading = FALSE
    /\ is_deleting = FALSE
    /\ status_receiver = 0
    /\ uploaded_files_receiver = 0
    /\ keep_config = NoConfig
    /\ selected_sections = << >>
    /\ chan = [r \in Runs |-> << >>]
    /\ fchan = [r \in Runs |-> << >>]
    /\ workers = [r \in Runs |-> NoWorker]
    /\ runs = 0
    /\ fg_pc = "idle"
    /\ call = NoCall

Next ==
    \/ start_upload
    \/ delete_and_reupload
    \/ reset_upload_state
    \/ UpdateStateBegin
    \/ UpdateStateRecv
    \/ \E r \in Runs : WorkerStep(r)

Spec == Init /\ [][Next]_vars

\* The same program under fair scheduling: eframe calls update on every frame and
\* update_state asks for the next repaint, so the poll keeps running; a spawned
\* thread keeps running, and each request it awaits returns.
SpecFair ==
    /\ Spec
    /\ WF_vars(UpdateStateBegin)
    /\ WF_vars(UpdateStateRecv)
    /\ \A r \in Runs : WF_vars(WorkerStep(r))

\* ------------------------------------------------------------------ the reducer alone
\* The fold of update_state applied to event sequences given directly: n pairs
\* of Processing and a terminal status are put on the installed channel and
\* update_state folds them into Uploading{total: n}.
MaxPairs == 3

Terminals == { "Success", "Error", "Skipped" }

Feeder == [NoWorker EXCEPT !.kind = "fold", !.pc = "feed"]

InitFold ==
    /\ curl_text = GoodText
    /\ curl_parser = Parse(NewParser, GoodText).parser
    /\ folder_path = NoFolder
    /\ \E n \in 0..MaxPairs : progress = Uploading(n, 0, 0, 0, 0)
    /\ current_file = NoName
    /\ file_statuses = << >>
    /\ uploaded_files = << >>
    /\ error_message = None
    /\ is_uploading = TRUE
    /\ is_deleting = FALSE
    /\ status_receiver = 1
    /\ uploaded_files_receiver = 1
    /\ keep_config = NoConfig
    /\ selected_sections = << >>
    /\ chan = [r \in Runs |-> << >>]
    /\ fchan = [r \in Runs |-> << >>]
    /\ workers = [r \in Runs |-> IF r = 1 THEN Feeder ELSE NoWorker]
    /\ runs = 1
    /\ fg_pc = "idle"
    /\ call = NoCall

FeedPair ==
    /\ workers[1].pc = "feed"
    /\ workers[1].idx < progress.total
    /\ \E t \in Terminals :
          chan' = [chan EXCEPT ![1] =
                      @ \o << Processing(FileName(workers[1].idx + 1)),
                              Ev(FileName(workers[1].idx + 1), t, "") >>]
    /\ workers' = [workers EXCEPT ![1].idx = @ + 1]
    /\ fchan' = fchan
    /\ WorkerFrame

NextFold ==
    \/ FeedPair
    \/ UpdateStateBegin
    \/ UpdateStateRecv

SpecFold == InitFold /\ [][NextFold]_vars

\* What has been folded so far, read off the history.
Folded(st) == Cardinality({ i \in 1..Len(file_statuses) : file_statuses[i].status = st })
FoldedTerminals == Folded("Success") + Folded("Error") + Folded("Skipped")
CounterSum == progress.successful + progress.failed + progress.skipped

\* C2 as stated: successful + failed + skipped == current after every event folded
\* into Uploading.
C2_AfterEveryEvent ==
    progress.kind = "Uploading" => CounterSum = progress.current

\* C2: after every Processing+terminal pair the three outcome counters sum
\* to current (after the Processing alone current is one ahead), and for n >= 1
\* the state is Completed exactly when the terminal of the n-th pair has been
\* folded.
C2_AfterEveryPair ==
    /\ (progress.kind = "Uploading" /\ Folded("Processing") = FoldedTerminals)
          => (CounterSum = progress.current /\ progress.current = FoldedTerminals)
    /\ (progress.kind = "Uploading" /\ Folded("Processing") # FoldedTerminals)
          => progress.current = CounterSum + 1
    /\ progress.total >= 1
          => (progress.kind = "Completed" <=> FoldedTerminals = progress.total)

C2_Witness ==
    /\ progress.kind = "Uploading"
    /\ progress.total = 3
    /\ progress.current = 2
    /\ CounterSum = 2
    /\ progress.skipped = 1

\* C3 as stated: folding all n pairs ends in Completed, for every n.
C3_EndsCompleted ==
    (workers[1].idx = progress.total /\ Len(file_statuses) = 2 * progress.total)
        => progress.kind = "Completed"

\* C3: for n >= 1, folding n pairs into Uploading{total: n} ends in
\* Completed{total: n} whose counters are the numbers of Success, Error and
\* Skipped terminals, with the error message set when an Error was among them.
C3_FinalCounters ==
    (progress.total >= 1 /\ Len(file_statuses) = 2 * progress.total)
        => /\ progress = Completed(progress.total, Folded("Success"), Folded("Error"),
                                   Folded("Skipped"))
           /\ Folded("Error") > 0 => error_message = FailuresMessage
           /\ ~is_uploading

C3_Witness ==
    /\ [i \in 1..Len(file_statuses) |-> file_statuses[i].status]
          = << "Processing", "Success", "Processing", "Error", "Processing", "Skipped" >>
    /\ progress = Completed(3, 1, 1, 1)
    /\ error_message = FailuresMessage

\* ------------------------------------------------------------------ runs
\* The threads that run process_files.
IsRun(w) == w.kind \in { "upload", "delete" }

\* process_files has returned in thread w.
Returned(w) ==
    /\ IsRun(w)
    /\ w.pc \in { "send_files", "send_final", "forward", "done" }
    /\ (w.kind = "delete" => w.folder.some)

\* The statuses process_files sent under a name, in order.
StatusesOf(w, name) ==
    LET idxs == { i \in 1..Len(w.emitted) : w.emitted[i].name = name }
        F[k \in 0..Len(w.emitted)] ==
            IF k = 0 THEN << >>
            ELSE IF k \in idxs THEN Append(F[k - 1], w.emitted[k].status)
            ELSE F[k - 1]
    IN  F[Len(w.emitted)]

\* File i has been attempted (its Processing was sent) / has been left behind by
\* the loop.
Attempted(w, i) == \E j \in 1..Len(w.emitted) : w.emitted[j] = Processing(FileName(i))
Finished(w, i) == Attempted(w, i) /\ w.idx > i

\* The probe failed in thread w, and on what.
ProbeFailed(w) == \E j \in 1..Len(w.emitted) : w.emitted[j].name = AuthName
ProbeReadFailed(w) ==
    \E j \in 1..Len(w.emitted) : w.emitted[j] = Error(AuthName, "Failed to read file")

\* C1: while progress is Uploading or Deleting, current <= total.
C1_CurrentAtMostTotal ==
    progress.kind \in { "Uploading", "Deleting" } => progress.current <= progress.total

\* C4: under fair scheduling every upload run (is_uploading is set by
\* start_upload when it spawns the thread) leads to Completed with is_uploading
\* false.
C4_UploadRunCompletes ==
    is_uploading ~> (progress.kind = "Completed" /\ ~is_uploading)

\* C5: when the probe fails, process_files sends exactly one Error and no
\* Processing or per-file status.
C5_ProbeFailureStream ==
    \A r \in Runs :
        (workers[r].kind = "upload" /\ ProbeFailed(workers[r])) =>
            (/\ Len(workers[r].emitted) = 1
             /\ workers[r].emitted[1].status = "Error")

\* C6: the statuses of a file process_files has attempted and left behind are
\* Processing followed by exactly one of Success, Error, Skipped.
C6_ProcessingThenOneTerminal ==
    \A r \in Runs : \A i \in 1..MaxFiles :
        Finished(workers[r], i) =>
            \E t \in Terminals :
                StatusesOf(workers[r], FileName(i)) = << "Processing", t >>

\* C7: a create request that could not reach the remote gives an Error status for
\* its file.
C7_TransportFailureReported ==
    \A r \in Runs : \A i \in workers[r].unreachable :
        \E j \in 1..Len(workers[r].emitted) :
            /\ workers[r].emitted[j].name = FileName(i)
            /\ workers[r].emitted[j].status = "Error"

\* C8: unless the probe's request itself failed, process_files attempts every
\* file it found, also when the first file could not be read.
C8_FileFailureNeverAborts ==
    \A r \in Runs :
        (Returned(workers[r]) /\ (ProbeFailed(workers[r]) => ProbeReadFailed(workers[r])))
            => \A i \in FilesToProcess(workers[r].folder) \ { 1 } :
                   Attempted(workers[r], i)

\* The terminal statuses the foreground has folded in this run.
FoldedTerminalStatuses ==
    Cardinality({ i \in 1..Len(file_statuses) : file_statuses[i].status \in Terminals })

C10_FailuresShown ==
    (progress.kind = "Completed" /\ progress.failed > 0) => error_message # None

C10_Witness ==
    /\ progress.kind = "Completed"
    /\ progress.failed > 0
    /\ error_message = FailuresMessage
    /\ ~is_uploading

\* ------------------------------------------------------------------ the walk
\* The Skipped statuses process_files has sent.
SkippedSent(w) ==
    Cardinality({ j \in 1..Len(w.emitted) : w.emitted[j].status = "Skipped" })

\* C11: when process_files of an upload run has returned, every file of the walk
\* that is_supported_file rejected has been reported by one Skipped status.
C11_RejectedReportedSkipped ==
    \A r \in Runs :
        (workers[r].kind = "upload" /\ Returned(workers[r]))
            => SkippedSent(workers[r]) = workers[r].folder.rejected

\* ------------------------------------------------------------------ the records
IsSuccessStatus(ev) == ev.status = "Success"

\* The Success statuses process_files has sent, in order.
SuccessesSent(w) == SelectSeq(w.emitted, IsSuccessStatus)

\* C12: a create request gives Success exactly for a 200/201 whose body parses
\* and Error for every other response; the records process_files has collected
\* are those of its Success statuses, one each, in the same order.
C12_RecordsFollowSuccesses ==
    /\ \A resp \in Responses \ { Transport } :
           UploadOutcome(FileName(1), resp).status =
               IF resp.status \in { 200, 201 } /\ resp.body = "json"
               THEN "Success" ELSE "Error"
    /\ \A r \in Runs :
           IsRun(workers[r]) =>
               /\ Len(workers[r].uploaded) = Len(SuccessesSent(workers[r]))
               /\ \A i \in 1..Len(workers[r].uploaded) :
                      /\ workers[r].uploaded[i].name = SuccessesSent(workers[r])[i].name
                      /\ workers[r].uploaded[i].uuid[1] = r

\* The first file got an Error, the second a Success: one record, for the second.
C12_Witness ==
    \E r \in Runs :
        /\ workers[r].kind = "upload"
        /\ Returned(workers[r])
        /\ StatusesOf(workers[r], FileName(1)) = << "Processing", "Error" >>
        /\ StatusesOf(workers[r], FileName(2)) = << "Processing", "Success" >>
        /\ Len(workers[r].uploaded) = 1
        /\ workers[r].uploaded[1].name = FileName(2)

\* ------------------------------------------------------------------ the probe's classes
\* The Error statuses process_files has sent for the probe.
ProbeErrors(w) ==
    { w.emitted[j].msg : j \in { k \in 1..Len(w.emitted) : w.emitted[k].name = AuthName } }

\* C13: the class of the probe's Error follows the HTTP status of the response: a
\* message that carries the status 403 or 401 (the generic class) is never sent.
C13_ClassFollowsStatus ==
    \A r \in Runs :
        /\ GenericMessage(403) \notin ProbeErrors(workers[r])
        /\ GenericMessage(401) \notin ProbeErrors(workers[r])

\* ------------------------------------------------------------------ delete, then upload
\* C14: a delete_and_reupload thread answers its records one after the other and
\* leaves the delete loop only with the answer to the last record; once it has
\* left, it awaits no delete again.  Without a folder it ends after the last
\* record.
C14_DeletesBeforeUpload ==
    [][\A r \in Runs :
           (workers[r].kind = "delete" /\ workers'[r].kind = "delete") =>
               /\ (workers[r].pc = "del_wait" /\ workers'[r].pc # "del_wait")
                      => workers[r].idx = Len(workers[r].dels)
               /\ (workers[r].pc = "del_wait" /\ workers'[r].pc = "del_wait"
                                              /\ workers'[r] # workers[r])
                      => (workers'[r].idx = workers[r].idx + 1
                          /\ workers'[r].idx <= Len(workers[r].dels))
               /\ workers[r].pc # "del_wait" => workers'[r].pc # "del_wait"
               /\ workers[r].pc = "del_wait" =>
                      NextDelete([workers[r] EXCEPT !.folder = NoFolder],
                                 Len(workers[r].dels) + 1).pc = "done"]_vars

\* Two records, one delete failed, the probe of the upload phase is in flight.
C14_Witness ==
    \E r \in Runs :
        /\ workers[r].kind = "delete"
        /\ Len(workers[r].dels) = 2
        /\ workers[r].pc = "probe_wait"
        /\ status_receiver = r
        /\ progress = Completed(2, 1, 1, 0)

\* C15: in a delete_and_reupload run progress is Completed only once the upload
\* phase (process_files) has finished.
C15_CompletedAfterUploadPhase ==
    \A r \in Runs :
        (/\ workers[r].kind = "delete"
         /\ status_receiver = r
         /\ progress.kind = "Completed")
            => Returned(workers[r])

\* ------------------------------------------------------------------ the delete loop
\* C16: each answer to a delete request sends exactly one status, for the record
\* the loop is at: Success for a success status, Error for any other answer; the
\* loop then moves to the next record whatever the answer, and sends nothing
\* else (no Processing, no probe).
C16_OneStatusPerRecord ==
    [][\A r \in Runs :
           (workers[r].kind = "delete" /\ workers[r].pc = "del_wait"
                                       /\ workers'[r] # workers[r]) =>
               /\ workers[r].idx \in 1..Len(workers[r].dels)
               /\ workers'[r].idx = workers[r].idx + 1
               /\ status_receiver = r =>
                      /\ Len(chan'[r]) = Len(chan[r]) + 1
                      /\ chan'[r][Len(chan'[r])].name = workers[r].dels[workers[r].idx].name
                      /\ chan'[r][Len(chan'[r])].status \in { "Success", "Error" }
               /\ \A resp \in DeleteResponses :
                      DeleteOutcome(NoName, resp).status =
                          IF resp = "success" THEN "Success" ELSE "Error"]_vars

\* Two records: the first delete failed, the second succeeded, both folded in
\* record order.
C16_Witness ==
    \E r \in Runs :
        /\ workers[r].kind = "delete"
        /\ status_receiver = r
        /\ Len(workers[r].dels) = 2
        /\ Len(file_statuses) >= 2
        /\ file_statuses[1].name = workers[r].dels[1].name
        /\ file_statuses[1].status = "Error"
        /\ file_statuses[2].name = workers[r].dels[2].name
        /\ file_statuses[2].status = "Success"

\* ------------------------------------------------------------------ one thread at a time
\* The threads that have been spawned and have not ended.
Running == { r \in Runs : workers[r].kind # "none" /\ workers[r].pc # "done" }

\* C17: at most one background thread is running at any time.
C17_OneThreadRunning == Cardinality(Running) <= 1

\* ------------------------------------------------------------------ parse failures
\* C18: when parse fails in start_upload or in delete_and_reupload no run starts:
\* no thread, no receiver, progress as before, both busy flags clear, and the
\* parse error in error_message.
C18_ParseFailureStartsNothing ==
    [][((start_upload \/ (delete_and_reupload /\ uploaded_files # << >>))
            /\ Parse(curl_parser, curl_text').result = "err") =>
           /\ workers' = workers
           /\ runs' = runs
           /\ status_receiver' = status_receiver
           /\ uploaded_files_receiver' = uploaded_files_receiver
           /\ chan' = chan
           /\ fchan' = fchan
           /\ progress' = progress
           /\ ~is_uploading'
           /\ ~is_deleting'
           /\ error_message' = ParseError(curl_text')
           /\ curl_parser' = curl_parser]_vars

\* Delete & Reupload was clicked after a completed upload with a text that has no
\* project segment.
C18_Witness ==
    /\ progress.kind = "Completed"
    /\ uploaded_files # << >>
    /\ curl_text = NoProjText
    /\ error_message = ParseError(NoProjText)
    /\ file_statuses = << >>
    /\ ~is_deleting
    /\ Running = { }

\* ------------------------------------------------------------------ parse alone
\* CurlParser::parse applied to request texts given directly: every text of up to
\* MaxTokens pieces, a piece being one of the two markers, a '/', a letter or
\* a line feed; the parser is new or holds the result of an earlier parse.
MaxTokens == 5

Tokens == { OrgMarker, ProjMarker, << "/" >>, << "a" >>, << "\n" >> }

RECURSIVE Concat(_)
Concat(pieces) == IF pieces = << >> THEN << >> ELSE Head(pieces) \o Concat(Tail(pieces))

ParseTexts == UNION { { Concat(ps) : ps \in [1..k -> Tokens] } : k \in 0..MaxTokens }

InitParse ==
    /\ curl_text \in ParseTexts
    /\ curl_parser \in { NewParser, Parse(NewParser, GoodText).parser }
    /\ folder_path = NoFolder
    /\ progress = NotStarted
    /\ current_file = NoName
    /\ file_statuses = << >>
    /\ uploaded_files = << >>
    /\ error_message = None
    /\ is_uploading = FALSE
    /\ is_deleting = FALSE
    /\ status_receiver = 0
    /\ uploaded_files_receiver = 0
    /\ keep_config = NoConfig
    /\ selected_sections = << >>
    /\ chan = [r \in Runs |-> << >>]
    /\ fchan = [r \in Runs |-> << >>]
    /\ workers = [r \in Runs |-> NoWorker]
    /\ runs = 0
    /\ fg_pc = "idle"
    /\ call = NoCall

\* self.curl_parser.parse(&self.curl_text): the fields after the call, the Err in
\* error_message as the handlers store it; a panic ends the foreground.
ParseCall ==
    /\ fg_pc = "idle"
    /\ curl_parser' = Parse(curl_parser, curl_text).parser
    /\ error_message' = IF Parse(curl_parser, curl_text).result = "err"
                        THEN Parse(curl_parser, curl_text).error
                        ELSE error_message
    /\ fg_pc' = IF Parse(curl_parser, curl_text).result = "panic" THEN "panicked"
                ELSE "parsed"
    /\ UNCHANGED << curl_text, folder_path, progress, current_file, file_statuses,
                    uploaded_files, is_uploading, is_deleting, status_receiver,
                    uploaded_files_receiver, keep_config, selected_sections, chan, fchan,
                    workers, runs, call >>

NextParse == ParseCall

SpecParse == InitParse /\ [][NextParse]_vars

\* The text holds marker followed, somewhere later, by a '/'.
HasSegment(marker, text) ==
    \E i \in 1..Len(text) :
        /\ i + Len(marker) - 1 <= Len(text)
        /\ SubSeq(text, i, i + Len(marker) - 1) = marker
        /\ \E j \in (i + Len(marker))..Len(text) : text[j] = "/"

\* The identifier of a segment: the characters after the first marker up to the
\* next '/'.
SegmentId(marker, text) ==
    LET i == CHOOSE k \in 1..Len(text) :
                 /\ SubSeq(text, k, k + Len(marker) - 1) = marker
                 /\ \A l \in 1..(k - 1) : SubSeq(text, l, l + Len(marker) - 1) # marker
        j == CHOOSE k \in (i + Len(marker))..Len(text) :
                 /\ text[k] = "/"
                 /\ \A l \in (i + Len(marker))..(k - 1) : text[l] # "/"
    IN  SubSeq(text, i + Len(marker), j - 1)

\* C19: a text without the organization segment fails with the organization
\* error, a text with it and without the project segment fails with the project
\* error, and the failing call leaves the three fields as they were.
C19_MissingSegmentFails ==
    [][fg_pc = "idle" /\ fg_pc' # "idle" =>
           /\ ~HasSegment(OrgMarker, curl_text) =>
                  (fg_pc' = "parsed" /\ error_message' = OrgError
                                     /\ curl_parser' = curl_parser)
           /\ (HasSegment(OrgMarker, curl_text) /\ ~HasSegment(ProjMarker, curl_text)) =>
                  (fg_pc' = "parsed" /\ error_message' = ProjError
                                     /\ curl_parser' = curl_parser)]_vars

\* A parser that held an earlier result has parsed a text that has the
\* organization segment and no project segment.
C19_Witness ==
    /\ fg_pc = "parsed"
    /\ error_message = ProjError
    /\ HasSegment(OrgMarker, curl_text)
    /\ ~HasSegment(ProjMarker, curl_text)
    /\ curl_parser = Parse(NewParser, GoodText).parser

\* C20: a text with both segments parses: the call returns Ok, the two
\* identifiers are those of the segments and content-type, origin and referer
\* are among the headers.
C20_BothSegmentsParse ==
    (fg_pc # "idle" /\ HasSegment(OrgMarker, curl_text)
                    /\ HasSegment(ProjMarker, curl_text)) =>
        /\ fg_pc = "parsed"
        /\ error_message = None
        /\ curl_parser.organization_id = SomeId(SegmentId(OrgMarker, curl_text))
        /\ curl_parser.project_id = SomeId(SegmentId(ProjMarker, curl_text))
        /\ curl_parser.headers.some
        /\ { ContentTypeName, OriginName, RefererName } \subseteq DOMAIN curl_parser.headers.map

\* ------------------------------------------------------------------ parse again
\* CurlParser::parse called again and again on one parser, each time on one of
\* ReparseTexts: texts without a segment, texts with the two segments and
\* different identifiers, with no argument line, a header argument, a
\* user-agent argument or a cookie argument, and a text whose project holds a
\* line feed.
ReparseTexts ==
    LET OtherIds == OrgMarker \o << "a" >> \o ProjMarker \o << "b", "/" >>
        HeaderArg == << "\n", " ", " ", "-", "H", " ", "'", "a", ":", " ", "x", "'" >>
        OtherArg == << "\n", " ", " ", "-", "H", " ", "'", "a", ":", " ", "y", "'" >>
        AgentArg == << "\n", " ", "-", "H", " ", "'" >> \o UserAgentName \o << ":", " ", "x", "'" >>
        CookieArg == << "\n", " ", " ", "-", "b", " ", "'", "c", "'" >>
    IN  { EmptyText,
          OrgMarker \o << "o", "/" >>,
          ProjMarker \o << "p", "/" >>,
          OrgMarker \o << "o" >> \o ProjMarker \o << "p", "\n", "/" >>,
          GoodText, OtherIds,
          GoodText \o HeaderArg, GoodText \o OtherArg, OtherIds \o HeaderArg,
          GoodText \o AgentArg, OtherIds \o AgentArg,
          GoodText \o CookieArg, GoodText \o HeaderArg \o CookieArg }

InitReparse ==
    /\ curl_text \in ReparseTexts
    /\ curl_parser = NewParser
    /\ folder_path = NoFolder
    /\ progress = NotStarted
    /\ current_file = NoName
    /\ file_statuses = << >>
    /\ uploaded_files = << >>
    /\ error_message = None
    /\ is_uploading = FALSE
    /\ is_deleting = FALSE
    /\ status_receiver = 0
    /\ uploaded_files_receiver = 0
    /\ keep_config = NoConfig
    /\ selected_sections = << >>
    /\ chan = [r \in Runs |-> << >>]
    /\ fchan = [r \in Runs |-> << >>]
    /\ workers = [r \in Runs |-> NoWorker]
    /\ runs = 0
    /\ fg_pc = "idle"
    /\ call = NoCall

\* self.curl_parser.parse(&self.curl_text) on the parser that has parsed before,
\* with the text the box holds now; call keeps the text of the call before and
\* the Result of this one.
ParseAgainCall ==
    /\ fg_pc = "parsed"
    /\ \E text \in ReparseTexts :
          /\ curl_text' = text
          /\ curl_parser' = Parse(curl_parser, text).parser
          /\ error_message' = IF Parse(curl_parser, text).result = "err"
                              THEN Parse(curl_parser, text).error
                              ELSE error_message
          /\ fg_pc' = IF Parse(curl_parser, text).result = "panic" THEN "panicked"
                      ELSE "parsed"
          /\ call' = [op |-> "parse", content |-> curl_text, file |-> << >>,
                      result |-> Parse(curl_parser, text).result]
    /\ UNCHANGED << folder_path, progress, current_file, file_statuses, uploaded_files,
                    is_uploading, is_deleting, status_receiver, uploaded_files_receiver,
                    keep_config, selected_sections, chan, fchan, workers, runs >>

NextReparse ==
    \/ ParseCall
    \/ ParseAgainCall

SpecReparse == InitReparse /\ [][NextReparse]_vars

\* C32: a successful parse leaves the organization, the project and the header
\* map that a new parser gets from the same text, whatever calls, successful or
\* failed, the parser has seen before on other texts; and a successful parse
\* of the text that was parsed just before leaves the parser as it is.
C32_ParseFromScratch ==
    [][(fg_pc = "parsed" /\ call'.op = "parse" /\ call'.result = "ok") =>
           /\ curl_parser' = Parse(NewParser, curl_text').parser
           /\ curl_text' = curl_text => curl_parser' = curl_parser]_vars

\* After a call that failed for the project and a successful call on a text
\* with a header argument and other identifiers, the text without arguments has
\* been parsed, and the header of the earlier text is not in the map.
C32_Witness ==
    /\ fg_pc = "parsed"
    /\ call.op = "parse"
    /\ call.result = "ok"
    /\ error_message = ProjError
    /\ call.content # curl_text
    /\ Parse(NewParser, call.content).result = "ok"
    /\ << "a" >> \in DOMAIN Parse(NewParser, call.content).parser.headers.map
    /\ curl_text = GoodText
    /\ << "a" >> \notin DOMAIN curl_parser.headers.map
    /\ curl_parser.organization_id # Parse(NewParser, call.content).parser.organization_id

\* ------------------------------------------------------------------ .claudekeep
\* str::trim: the white space at both ends is removed.
WhiteSpace == { " ", "\t", "\r", "\n" }
RECURSIVE Trim(_)
Trim(s) ==
    IF s = << >> THEN s
    ELSE IF s[1] \in WhiteSpace THEN Trim(Tail(s))
    ELSE IF s[Len(s)] \in WhiteSpace THEN Trim(SubSeq(s, 1, Len(s) - 1))
    ELSE s

\* The body of from_file's loop for one line: a blank line is passed over, a
\* line that ends with ':' becomes the current section, is pushed on sections
\* and gets an empty pattern list, any other line is pushed on the patterns of
\* the current section when that name is not empty.
KeepLine(config, raw) ==
    LET line == Trim(raw)
    IN  IF line = << >> THEN config
        ELSE IF line[Len(line)] = ":"
        THEN LET name == SubSeq(line, 1, Len(line) - 1)
             IN  [config EXCEPT !.current_section = name,
                                !.sections = Append(@, name),
                                !.patterns = Insert(@, name, << >>)]
        ELSE IF config.current_section # << >>
        THEN [config EXCEPT !.patterns[config.current_section] = Append(@, line)]
        ELSE config

RECURSIVE KeepLoop(_, _)
KeepLoop(config, lines) ==
    IF lines = << >> THEN config ELSE KeepLoop(KeepLine(config, Head(lines)), Tail(lines))

\* The file .claudekeep of a folder: absent (or unreadable), or its content.
NoKeepFile == [exists |-> FALSE, content |-> << >>]
KeepFile(content) == [exists |-> TRUE, content |-> content]

\* ClaudeKeepConfig::from_file: None without a readable file, else the sections
\* and patterns the loop collects.
from_file(folder, file) ==
    IF ~file.exists THEN NoConfig
    ELSE LET config == KeepLoop([sections |-> << >>, patterns |-> << >>,
                                 current_section |-> << >>], Lines(file.content))
         IN  [some |-> TRUE, sections |-> config.sections, patterns |-> config.patterns,
              folder_path |-> folder]

\* glob::Pattern::new on the characters used here (no '[' class): the tokens of
\* a pattern.  Three or more '*' in a row are refused, and so is "**" that does
\* not stand between separators or the ends of the pattern; "**" takes the
\* separator after it and is not pushed when the last of two or more tokens is
\* already a recursive one.
BadPattern == [ok |-> FALSE, tokens |-> << >>]
CharToken(c) == [t |-> "Char", c |-> c]
AnyChar == [t |-> "AnyChar", c |-> ""]
AnySequence == [t |-> "AnySequence", c |-> ""]
AnyRecursiveSequence == [t |-> "AnyRecursiveSequence", c |-> ""]

Stars(p, i) ==
    IF i + 2 <= Len(p) /\ p[i + 1] = "*" /\ p[i + 2] = "*" THEN 3
    ELSE IF i + 1 <= Len(p) /\ p[i + 1] = "*" THEN 2
    ELSE 1

RECURSIVE PatternNew(_, _, _)
PatternNew(p, i, tokens) ==
    IF i > Len(p) THEN [ok |-> TRUE, tokens |-> tokens]
    ELSE IF p[i] = "?" THEN PatternNew(p, i + 1, Append(tokens, AnyChar))
    ELSE IF p[i] = "*"
    THEN LET count == Stars(p, i)
             after == i + count
         IN  IF count > 2 THEN BadPattern
             ELSE IF count = 1 THEN PatternNew(p, after, Append(tokens, AnySequence))
             ELSE IF ~(i = 1 \/ p[i - 1] = "/") THEN BadPattern
             ELSE IF after <= Len(p) /\ p[after] # "/" THEN BadPattern
             ELSE PatternNew(p, IF after <= Len(p) THEN after + 1 ELSE after,
                             IF Len(tokens) > 1 /\ tokens[Len(tokens)] = AnyRecursiveSequence
                             THEN tokens ELSE Append(tokens, AnyRecursiveSequence))
    ELSE PatternNew(p, i + 1, Append(tokens, CharToken(p[i])))

\* Pattern::matches_path with the default options: a character matches itself,
\* '?' one character, '*' any characters (separators too), "**" nothing or the
\* characters up to a separator, or all that is left when it is the last token.
RECURSIVE MatchesFrom(_, _)
MatchesFrom(tokens, file) ==
    IF tokens = << >> THEN file = << >>
    ELSE LET token == Head(tokens)
             rest(k) == SubSeq(file, k + 1, Len(file))
         IN  IF token.t = "Char"
             THEN file # << >> /\ file[1] = token.c /\ MatchesFrom(Tail(tokens), Tail(file))
             ELSE IF token.t = "AnyChar"
             THEN file # << >> /\ MatchesFrom(Tail(tokens), Tail(file))
             ELSE IF token.t = "AnySequence"
             THEN \E k \in 0..Len(file) : MatchesFrom(Tail(tokens), rest(k))
             ELSE \E k \in 0..Len(file) :
                      /\ k = 0 \/ file[k] = "/" \/ (k = Len(file) /\ Tail(tokens) = << >>)
                      /\ MatchesFrom(Tail(tokens), rest(k))

\* A file handed to is_supported_file: the folder the walk started from, the
\* path of the file below it, and what canonicalize makes of it: an error, or
\* the path below the canonical form of the folder.
FilePath(file) == file.folder \o << "/" >> \o file.relative
CanonicalPath(file) == file.canonical_folder \o << "/" >> \o file.relative

\* Path::strip_prefix: the path below base, when it is below base.
IsBelow(path, base) == StartsWith(path, base \o << "/" >>)
StripPrefix(path, base) == SubSeq(path, Len(base) + 2, Len(path))

\* "**/" is put before a pattern that does not start with it.
RecursivePrefix == << "*", "*", "/" >>

\* Mutant of ProcessedPattern: a pattern that holds a wildcard is left as written.
ProcessedPatternUnlessWildcard(pattern) ==
    IF StartsWith(pattern, RecursivePrefix) \/ (\E i \in 1..Len(pattern) : pattern[i] \in { "*", "?" })
    THEN pattern
    ELSE RecursivePrefix \o pattern

ProcessedPattern(pattern) ==
    IF StartsWith(pattern, RecursivePrefix) THEN pattern ELSE RecursivePrefix \o pattern

\* One pattern of should_include_file's inner loop: it matches when it compiles
\* and matches the relative path.
PatternMatches(pattern, relative_path) ==
    LET glob_pattern == PatternNew(ProcessedPattern(pattern), 1, << >>)
    IN  glob_pattern.ok /\ MatchesFrom(glob_pattern.tokens, relative_path)

\* Mutant of should_include_file: an empty selection is looked up like any other.
ShouldIncludeEmptyLookedUp(config, file, selected_sections_) ==
    /\ file.canonical
    /\ IsBelow(CanonicalPath(file), config.folder_path)
    /\ \E i \in 1..Len(selected_sections_) :
          /\ selected_sections_[i] \in DOMAIN config.patterns
          /\ \E j \in 1..Len(config.patterns[selected_sections_[i]]) :
                PatternMatches(config.patterns[selected_sections_[i]][j],
                               StripPrefix(CanonicalPath(file), config.folder_path))

\* ClaudeKeepConfig::should_include_file: true for an empty selection; false
\* when the path cannot be made canonical or is not below the folder of the
\* config; else true when a pattern of a selected section matches.
should_include_file(config, file, selected_sections_) ==
    IF selected_sections_ = << >> THEN TRUE
    ELSE IF ~file.canonical THEN FALSE
    ELSE IF ~IsBelow(CanonicalPath(file), config.folder_path) THEN FALSE
    ELSE \E i \in 1..Len(selected_sections_) :
             /\ selected_sections_[i] \in DOMAIN config.patterns
             /\ \E j \in 1..Len(config.patterns[selected_sections_[i]]) :
                   PatternMatches(config.patterns[selected_sections_[i]][j],
                                  StripPrefix(CanonicalPath(file), config.folder_path))

IgnoredPaths ==
    { << "n", "o", "d", "e", "_", "m", "o", "d", "u", "l", "e", "s" >>,
      << ".", "n", "u", "x", "t" >>,
      << ".", "o", "u", "t", "p", "u", "t" >>,
      << ".", "d", "a", "t", "a" >>,
      << ".", "n", "i", "t", "r", "o" >>,
      << ".", "c", "a", "c", "h", "e" >>,
      << "d", "i", "s", "t" >>,
      << "l", "o", "g", "s" >>,
      << ".", "w", "a", "l", "l", "e", "t", "-", "d", "b" >>,
      << ".", "f", "l", "e", "e", "t" >>,
      << ".", "i", "d", "e", "a" >> }
IgnoredFiles ==
    { << "p", "a", "c", "k", "a", "g", "e", "-", "l", "o", "c", "k", ".", "j", "s", "o", "n" >>,
      << ".", "D", "S", "_", "S", "t", "o", "r", "e" >>,
      << ".", "e", "n", "v" >>,
      << ".", "e", "n", "v", ".", "l", "o", "c", "a", "l" >>,
      << ".", "e", "n", "v", ".", "d", "e", "v", "e", "l", "o", "p", "m", "e", "n", "t" >>,
      << ".", "e", "n", "v", ".", "p", "r", "o", "d", "u", "c", "t", "i", "o", "n" >> }
SupportedExtensions ==
    { << "h", "t", "m", "l" >>,
      << "c", "s", "s" >>,
      << "j", "s" >>,
      << "j", "s", "x" >>,
      << "t", "s" >>,
      << "t", "s", "x" >>,
      << "v", "u", "e" >>,
      << "s", "v", "e", "l", "t", "e" >>,
      << "p", "y" >>,
      << "p", "y", "w" >>,
      << "p", "y", "x" >>,
      << "p", "y", "i" >>,
      << "r", "s" >>,
      << "m", "d" >>,
      << "t", "x", "t" >>,
      << "j", "s", "o", "n" >>,
      << "y", "a", "m", "l" >>,
      << "y", "m", "l" >>,
      << "t", "o", "m", "l" >>,
      << "x", "m", "l" >>,
      << "d", ".", "t", "s" >>,
      << "g", "i", "t", "i", "g", "n", "o", "r", "e" >>,
      << "p", "r", "e", "t", "t", "i", "e", "r", "r", "c" >>,
      << "e", "s", "l", "i", "n", "t", "r", "c" >>,
      << "e", "s", "l", "i", "n", "t", "i", "g", "n", "o", "r", "e" >>,
      << "b", "a", "b", "e", "l", "r", "c" >>,
      << "b", "r", "o", "w", "s", "e", "r", "s", "l", "i", "s", "t", "r", "c" >>,
      << "e", "d", "i", "t", "o", "r", "c", "o", "n", "f", "i", "g" >>,
      << "n", "p", "m", "r", "c" >> }

\* Path::file_name and Path::extension: the last component, and what follows its
\* last '.' when that is not its first character.
LastIndexOf(c, s) ==
    LET at == { i \in 1..Len(s) : s[i] = c }
    IN  IF at = { } THEN 0 ELSE CHOOSE i \in at : \A j \in at : j <= i
PathFileName(path) == SubSeq(path, LastIndexOf("/", path) + 1, Len(path))
HasExtension(path) == LastIndexOf(".", PathFileName(path)) > 1
PathExtension(path) ==
    SubSeq(PathFileName(path), LastIndexOf(".", PathFileName(path)) + 1,
           Len(PathFileName(path)))

\* The gates of is_supported_file other than the section config.
InIgnoredPath(file) ==
    file.canonical /\ \E ignored \in IgnoredPaths : Contains(CanonicalPath(file), ignored)
IsIgnoredFile(file) == PathFileName(FilePath(file)) \in IgnoredFiles
HasSupportedExtension(file) ==
    IF HasExtension(FilePath(file))
    THEN ToLowercase(PathExtension(FilePath(file))) \in SupportedExtensions
    ELSE ToLowercase(PathFileName(FilePath(file))) \in SupportedExtensions

\* Mutant of is_supported_file: the section config is not asked.
IsSupportedFileConfigNotAsked(config, selected_sections_, file) ==
    IF InIgnoredPath(file) THEN FALSE
    ELSE IF IsIgnoredFile(file) THEN FALSE
    ELSE HasSupportedExtension(file)

\* FileProcessor::is_supported_file.
is_supported_file(config, selected_sections_, file) ==
    IF InIgnoredPath(file) THEN FALSE
    ELSE IF IsIgnoredFile(file) THEN FALSE
    ELSE IF config.some /\ ~should_include_file(config, file, selected_sections_) THEN FALSE
    ELSE HasSupportedExtension(file)

\* ------------------------------------------------------------------ header lines
\* CurlParser::parse applied to pasted commands: a first line with the two
\* segments, then up to MaxHeaderLines argument lines, each a header argument
\* (one or two leading spaces, a name, ": ", a value, the closing quote, with or
\* without the " \" that continues the command) or a cookie argument.
MaxHeaderLines == 2

ArgLines ==
    { p \o n \o << ":", " " >> \o v \o e :
        p \in { HPrefix2, HPrefix1 },
        n \in { UserAgentName, << "U", "s", "e", "r", "-", "A", "g", "e", "n", "t" >>,
                OriginName, ContentTypeName },
        v \in { << "x" >>, << "y" >>, << "x", ":", " ", "y" >> },
        e \in { << "'" >>, << "'", " ", "\\" >> } }
        \cup { << " ", " ", "-", "b", " ", "'", "c", "'" >> }

RECURSIVE JoinLines(_)
JoinLines(ls) == IF ls = << >> THEN << >> ELSE << "\n" >> \o Head(ls) \o JoinLines(Tail(ls))

HeaderTexts ==
    UNION { { GoodText \o JoinLines(ls) : ls \in [1..k -> ArgLines] } : k \in 0..MaxHeaderLines }

InitHeaders ==
    /\ curl_text \in HeaderTexts
    /\ curl_parser = NewParser
    /\ folder_path = NoFolder
    /\ progress = NotStarted
    /\ current_file = NoName
    /\ file_statuses = << >>
    /\ uploaded_files = << >>
    /\ error_message = None
    /\ is_uploading = FALSE
    /\ is_deleting = FALSE
    /\ status_receiver = 0
    /\ uploaded_files_receiver = 0
    /\ keep_config = NoConfig
    /\ selected_sections = << >>
    /\ chan = [r \in Runs |-> << >>]
    /\ fchan = [r \in Runs |-> << >>]
    /\ workers = [r \in Runs |-> NoWorker]
    /\ runs = 0
    /\ fg_pc = "idle"
    /\ call = NoCall

SpecHeaders == InitHeaders /\ [][NextParse]_vars

\* The values a line supplies for a header: the line is one or two spaces, -H,
\* and a quoted argument `name: value` (the name in any case), alone or followed
\* by the " \" that continues the command.
SuppliedIn(line, name) ==
    { v \in { SubSeq(line, a, b) : a \in 1..(Len(line) + 1), b \in 0..Len(line) } :
        \E p \in 1..2 :
            /\ SubSeq(line, 1, p) \in { << " " >>, << " ", " " >> }
            /\ SubSeq(line, p + 1, p + 4) = << "-", "H", " ", "'" >>
            /\ ToLowercase(SubSeq(line, p + 5, p + 4 + Len(name))) = name
            /\ SubSeq(line, p + 5 + Len(name), p + 6 + Len(name)) = << ":", " " >>
            /\ \A i \in 1..Len(v) : v[i] # "'"
            /\ SubSeq(line, p + 7 + Len(name), Len(line)) \in
                   { v \o << "'" >>, v \o << "'", " ", "\\" >> } }

\* The value the text supplies for a header: that of the last line that
\* supplies one.
SuppliesHeader(text, name) ==
    \E i \in 1..Len(Split(text, << "\n" >>)) : SuppliedIn(Split(text, << "\n" >>)[i], name) # { }
SuppliedValue(text, name) ==
    LET ls == Split(text, << "\n" >>)
        at == { i \in 1..Len(ls) : SuppliedIn(ls[i], name) # { } }
        last == CHOOSE i \in at : \A j \in at : j <= i
    IN  CHOOSE v \in SuppliedIn(ls[last], name) : TRUE

\* C21: in the headers of a successful parse, content-type, origin and referer
\* have the derived values whatever the text supplied for them, and user-agent
\* has the supplied value when the text supplied one, the default otherwise.
C21_DerivedAndSuppliedHeaders ==
    (fg_pc = "parsed" /\ curl_parser.headers.some) =>
        LET map == curl_parser.headers.map
        IN  /\ { ContentTypeName, OriginName, RefererName, UserAgentName } \subseteq DOMAIN map
            /\ map[ContentTypeName] = JsonType
            /\ map[OriginName] = ClaudeOrigin
            /\ map[RefererName] = RefererPrefix \o SegmentId(ProjMarker, curl_text)
            /\ map[UserAgentName] = IF SuppliesHeader(curl_text, UserAgentName)
                                    THEN SuppliedValue(curl_text, UserAgentName)
                                    ELSE DefaultUserAgent

\* ------------------------------------------------------------------ eligibility alone
\* is_supported_file, should_include_file, count_supported_files and the walk of
\* process_files applied to a folder given directly: the folder as it was
\* picked, its canonical form (the same path, or another one when the picked
\* path goes through a link), a .claudekeep file or none, a selection of up to
\* MaxSelected section names, and the files of KeepPaths below the folder.
MaxSelected == 2

PickedFolder == << "/", "r" >>

KeepPaths ==
    { << "a", ".", "m", "d" >>,
      << "a", ".", "r", "s" >>,
      << "s", "/", "a", ".", "m", "d" >>,
      << "d", "i", "s", "t", "/", "a", ".", "m", "d" >>,
      << ".", "e", "n", "v" >>,
      << "a", ".", "x" >>,
      << "A", ".", "M", "D" >> }

SectionNames ==
    { << "d", "o", "c", "s" >>, << "c", "o", "d", "e" >>, << "e", "m", "p", "t", "y" >>,
      << "o", "t", "h", "e", "r" >> }

KeepFiles ==
    { NoKeepFile,
      KeepFile(<< "d", "o", "c", "s", ":", "\n", "*", "*", "/", "*", ".", "m", "d", "\n", "c", "o", "d", "e", ":", "\n", "*", "*", "/", "*", ".", "r", "s" >>),
      KeepFile(<< "d", "o", "c", "s", ":", "\n", "*", ".", "m", "d", "\n", "e", "m", "p", "t", "y", ":", "\n", "c", "o", "d", "e", ":", "\n", "s", "/", "*" >>),
      KeepFile(<< "d", "o", "c", "s", ":", "\n", "*", "*", "*", "\n", "a", ".", "?", "?", "\n", "c", "o", "d", "e", ":", "\n", "a", ".", "r", "s" >>) }

Selections == UNION { [1..k -> SectionNames] : k \in 0..MaxSelected }

KeepInputs ==
    [folder : { PickedFolder }, canonical_folder : { PickedFolder, << "/", "v", "/", "r" >> },
     canonical : BOOLEAN, relative : KeepPaths]

InitKeep ==
    /\ curl_text = EmptyText
    /\ curl_parser = NewParser
    /\ folder_path = NoFolder
    /\ progress = NotStarted
    /\ current_file = NoName
    /\ file_statuses = << >>
    /\ uploaded_files = << >>
    /\ error_message = None
    /\ is_uploading = FALSE
    /\ is_deleting = FALSE
    /\ status_receiver = 0
    /\ uploaded_files_receiver = 0
    /\ keep_config \in { from_file(PickedFolder, file) : file \in KeepFiles }
    /\ selected_sections \in Selections
    /\ chan = [r \in Runs |-> << >>]
    /\ fchan = [r \in Runs |-> << >>]
    /\ workers = [r \in Runs |-> NoWorker]
    /\ runs = 0
    /\ fg_pc = "idle"
    /\ \E file \in KeepInputs : call = [NoCall EXCEPT !.file = file]

\* The files the walk of the folder meets.
WalkOf(file) == { [file EXCEPT !.relative = relative] : relative \in KeepPaths }

KeepFrame ==
    UNCHANGED << curl_text, curl_parser, folder_path, progress, current_file, file_statuses,
                 uploaded_files, error_message, is_uploading, is_deleting, status_receiver,
                 uploaded_files_receiver, keep_config, selected_sections, chan, fchan,
                 workers, runs, fg_pc >>

\* self.is_supported_file(path)
IsSupportedFileCall ==
    /\ call.op = "none"
    /\ call' = [call EXCEPT !.op = "is_supported_file",
                            !.result = is_supported_file(keep_config, selected_sections,
                                                         call.file)]
    /\ KeepFrame

\* config.should_include_file(path, &self.selected_sections)
ShouldIncludeFileCall ==
    /\ call.op = "none"
    /\ keep_config.some
    /\ call' = [call EXCEPT !.op = "should_include_file",
                            !.result = should_include_file(keep_config, call.file,
                                                           selected_sections)]
    /\ KeepFrame

\* processor.count_supported_files()
CountSupportedFilesCall ==
    /\ call.op = "none"
    /\ call' = [call EXCEPT !.op = "count_supported_files",
                            !.result = Cardinality(
                                { file \in WalkOf(call.file) :
                                    is_supported_file(keep_config, selected_sections, file) })]
    /\ KeepFrame

\* process_files without a failing request: the files the walk pushes on
\* files_to_process, of which upload_file sends those it does not skip.
ProcessFilesCall ==
    /\ call.op = "none"
    /\ call' = [call EXCEPT !.op = "process_files",
                            !.result =
                                { file \in { pushed \in WalkOf(call.file) :
                                               is_supported_file(keep_config, selected_sections,
                                                                 pushed) } :
                                    is_supported_file(keep_config, selected_sections, file) }]
    /\ KeepFrame

NextKeep ==
    \/ IsSupportedFileCall
    \/ ShouldIncludeFileCall
    \/ CountSupportedFilesCall
    \/ ProcessFilesCall

SpecKeep == InitKeep /\ [][NextKeep]_vars

\* A pattern of a selected section matches the path of the file below the folder.
SelectedPatternMatches(config, selection, relative) ==
    \E i \in 1..Len(selection) :
        /\ selection[i] \in DOMAIN config.patterns
        /\ \E j \in 1..Len(config.patterns[selection[i]]) :
              PatternMatches(config.patterns[selection[i]][j], relative)

\* C22: with an empty selection is_supported_file is decided by the ignored
\* directories, the ignored file names and the extension list alone, the same
\* with a config as without one.
C22_EmptySelectionIgnoresConfig ==
    (call.op = "is_supported_file" /\ selected_sections = << >>) =>
        /\ call.result = (/\ ~InIgnoredPath(call.file)
                          /\ ~IsIgnoredFile(call.file)
                          /\ HasSupportedExtension(call.file))
        /\ call.result = is_supported_file(NoConfig, << >>, call.file)

\* With a config whose patterns do not match it and an empty selection, a file
\* has been found eligible.
C22_Witness ==
    /\ call.op = "is_supported_file"
    /\ selected_sections = << >>
    /\ keep_config.some
    /\ \A name \in SectionNames :
          ~SelectedPatternMatches(keep_config, << name >>, call.file.relative)
    /\ call.result = TRUE

\* C23: when a pattern of a selected section matches the path of the file below
\* the folder, should_include_file is true, whatever the sections that are not
\* selected hold; and a file included under a selection stays included when a
\* section is added to the selection.
C23_SelectedMatchIncludes ==
    call.op = "should_include_file" =>
        /\ SelectedPatternMatches(keep_config, selected_sections, call.file.relative) =>
               call.result = TRUE
        /\ (selected_sections # << >> /\ call.result = TRUE) =>
               \A name \in SectionNames :
                   should_include_file(keep_config, call.file,
                                       Append(selected_sections, name))

\* should_include_file has looked at the patterns: the selection is not empty
\* and the canonical path of the file is below the folder of the config.
PatternsAsked ==
    /\ call.op = "should_include_file"
    /\ selected_sections # << >>
    /\ call.file.canonical
    /\ IsBelow(CanonicalPath(call.file), keep_config.folder_path)

\* The pattern, compiled as it is written, matches the path or what is left of
\* the path after one of its separators.
MatchesAtAnyDepth(pattern, relative) ==
    LET written == PatternNew(pattern, 1, << >>)
    IN  /\ written.ok
        /\ \E k \in 0..Len(relative) :
              /\ k = 0 \/ relative[k] = "/"
              /\ MatchesFrom(written.tokens, SubSeq(relative, k + 1, Len(relative)))

\* The pattern matches under the rule that leaves a pattern with a wildcard as
\* it is written.
MatchesUnlessWildcard(pattern, relative) ==
    LET glob_pattern == PatternNew(ProcessedPatternUnlessWildcard(pattern), 1, << >>)
    IN  glob_pattern.ok /\ MatchesFrom(glob_pattern.tokens, relative)

\* C31 as it is stated: a pattern is prefixed with "**/" unless it starts with
\* "**/" or holds a wildcard, and a pattern with a wildcard that does not start
\* with "**/" is matched as written; so the answer of should_include_file is
\* that some pattern of a selected section matches under that rule.
C31_WildcardMatchedAsWritten ==
    PatternsAsked =>
        call.result =
            (\E i \in 1..Len(selected_sections) :
                /\ selected_sections[i] \in DOMAIN keep_config.patterns
                /\ \E j \in 1..Len(keep_config.patterns[selected_sections[i]]) :
                      MatchesUnlessWildcard(keep_config.patterns[selected_sections[i]][j],
                                            call.file.relative))

\* C31, amended: a pattern is prefixed with "**/" unless it starts with "**/",
\* with or without a wildcard in it; so a pattern that does not start with
\* "**/" matches a file when, as written, it matches the path below the folder
\* or the rest of that path after any of its separators, and a pattern that
\* starts with "**/" matches as written.
C31_PrefixedUnlessRecursive ==
    PatternsAsked =>
        call.result =
            (\E i \in 1..Len(selected_sections) :
                /\ selected_sections[i] \in DOMAIN keep_config.patterns
                /\ \E j \in 1..Len(keep_config.patterns[selected_sections[i]]) :
                      LET pattern == keep_config.patterns[selected_sections[i]][j]
                      IN  IF StartsWith(pattern, RecursivePrefix)
                          THEN LET written == PatternNew(pattern, 1, << >>)
                               IN  written.ok /\ MatchesFrom(written.tokens, call.file.relative)
                          ELSE MatchesAtAnyDepth(pattern, call.file.relative))

\* A file in a directory has been included by a pattern with a wildcard that,
\* as written, matches the file name only.
C31_Witness ==
    /\ PatternsAsked
    /\ call.result = TRUE
    /\ \E i \in 1..Len(selected_sections) :
          /\ selected_sections[i] \in DOMAIN keep_config.patterns
          /\ \E j \in 1..Len(keep_config.patterns[selected_sections[i]]) :
                LET pattern == keep_config.patterns[selected_sections[i]][j]
                IN  /\ \E c \in 1..Len(pattern) : pattern[c] \in { "*", "?" }
                    /\ ~StartsWith(pattern, RecursivePrefix)
                    /\ MatchesAtAnyDepth(pattern, call.file.relative)
                    /\ ~MatchesUnlessWildcard(pattern, call.file.relative)

\* C24: with a config and a selection that is not empty, a file that no pattern
\* of a selected section matches is not eligible, is not counted by
\* count_supported_files and is not among the files process_files sends.
C24_UnmatchedNeverEligible ==
    (keep_config.some /\ selected_sections # << >>) =>
        /\ (/\ call.op = "is_supported_file"
            /\ ~SelectedPatternMatches(keep_config, selected_sections, call.file.relative)) =>
               call.result = FALSE
        /\ call.op = "count_supported_files" =>
               call.result <= Cardinality(
                   { relative \in KeepPaths :
                       SelectedPatternMatches(keep_config, selected_sections, relative) })
        /\ call.op = "process_files" =>
               \A file \in call.result :
                   SelectedPatternMatches(keep_config, selected_sections, file.relative)

\* process_files has kept some files and left out one that passes the three
\* other gates, under a selection that holds a name the config does not have.
C24_Witness ==
    /\ call.op = "process_files"
    /\ keep_config.some
    /\ selected_sections # << >>
    /\ \E i \in 1..Len(selected_sections) : selected_sections[i] \notin DOMAIN keep_config.patterns
    /\ call.result # { }
    /\ \E file \in WalkOf(call.file) :
          /\ file \notin call.result
          /\ is_supported_file(NoConfig, << >>, file)

\* ------------------------------------------------------------------ runs, continued
\* C25: while progress is Deleting, after each event of the delete thread is
\* folded, successful + failed equals current.
C25_DeletingCountersAgree ==
    progress.kind = "Deleting" => progress.successful + progress.failed = progress.current

\* C26: in every Completed state of an upload run, successful + failed + skipped
\* equals total, the total being count_supported_files of the folder, also
\* when it is 0.
C26_CompletedSumsToTotal ==
    (/\ progress.kind = "Completed"
     /\ status_receiver # 0
     /\ workers[status_receiver].kind = "upload") =>
        /\ progress.total = CountSupportedFiles(workers[status_receiver].folder)
        /\ CounterSum = progress.total

\* C27: when the create request of the probe succeeds (the probe sends no
\* Error), the thread next awaits the delete request for the test document,
\* before any create request for a file; and whatever that delete returns the
\* thread goes on to the first file.
C27_ProbeCleanupBeforeUploads ==
    [][\A r \in Runs :
          /\ (/\ workers[r].pc = "probe_wait"
              /\ workers'[r].pc # "probe_wait"
              /\ workers'[r].emitted = workers[r].emitted) =>
                 workers'[r].pc = "probe_del_wait"
          /\ (workers[r].pc = "probe_del_wait" /\ workers'[r].pc # "probe_del_wait") =>
                 (workers'[r].pc = "file_begin" /\ workers'[r].idx = 1)]_vars

\* s is the beginning of t.
IsPrefix(s, t) == Len(s) <= Len(t) /\ SubSeq(t, 1, Len(s)) = s

\* The drain loop applied to a sequence of statuses.
RECURSIVE FoldStatuses(_, _)
FoldStatuses(p, statuses) ==
    IF statuses = << >> THEN p
    ELSE FoldStatuses(FoldProgress(p, Head(statuses).status), Tail(statuses))

\* The progress the handler of the current run assigned when it started it.
InitialProgress ==
    IF workers[status_receiver].kind = "upload" THEN Uploading(progress.total, 0, 0, 0, 0)
    ELSE Deleting(progress.total, 0, 0, 0)

\* C28: file_statuses is the sequence of the statuses drained so far from the
\* channel of the current run, in the order they were sent: while the receiver
\* stays the same, what was drained followed by what is queued only grows at its
\* end and what was drained only grows by what is received, Completed or not;
\* and progress is the drain loop applied to file_statuses from the progress
\* the run started with.
C28_HistoryIsDrainedSequence ==
    /\ [][(status_receiver # 0 /\ status_receiver' = status_receiver) =>
              /\ IsPrefix(file_statuses, file_statuses')
              /\ IsPrefix(file_statuses \o chan[status_receiver],
                          file_statuses' \o chan'[status_receiver])
              /\ Len(file_statuses') - Len(file_statuses)
                     = IF Len(chan'[status_receiver]) < Len(chan[status_receiver])
                       THEN 1 ELSE 0]_vars
    /\ [](status_receiver # 0 => progress = FoldStatuses(InitialProgress, file_statuses))

\* C33: during an upload run the successful counter is at most the number of
\* records process_files has collected, and once process_files has returned and
\* progress is Completed it is the length of the list it returned.
C33_SuccessfulCountsRecords ==
    (/\ status_receiver # 0
     /\ workers[status_receiver].kind = "upload"
     /\ progress.kind \in { "Uploading", "Completed" }) =>
        /\ progress.successful <= Len(workers[status_receiver].uploaded)
        /\ (progress.kind = "Completed" /\ Returned(workers[status_receiver])) =>
               progress.successful = Len(workers[status_receiver].uploaded)

\* C34: whenever a poll has returned with progress Completed for an upload run
\* whose process_files returned at least one record, uploaded_files holds the
\* records of that run, so Delete & Reupload, which the UI offers in that state,
\* finds files to delete.
C34_CompletedHoldsRecords ==
    (/\ progress.kind = "Completed"
     /\ fg_pc = "idle"
     /\ status_receiver # 0
     /\ workers[status_receiver].kind = "upload"
     /\ Returned(workers[status_receiver])
     /\ workers[status_receiver].uploaded # << >>) =>
        uploaded_files = workers[status_receiver].uploaded

\* C35: is_uploading and is_deleting are never both true, and once a handler or
\* a poll has returned with progress NotStarted or Completed both are false.
C35_BusyFlagsExclusive ==
    /\ ~(is_uploading /\ is_deleting)
    /\ (fg_pc = "idle" /\ progress.kind \in { "NotStarted", "Completed" }) =>
           (~is_uploading /\ ~is_deleting)

\* A delete run that followed an upload run has been folded to Completed.
C35_Witness ==
    /\ fg_pc = "idle"
    /\ progress.kind = "Completed"
    /\ status_receiver # 0
    /\ workers[status_receiver].kind = "delete"
    /\ ~is_uploading
    /\ ~is_deleting

\* C36: a thread whose status receiver has been replaced or dropped (by a new
\* run or by reset_upload_state) changes nothing outside itself: its steps leave
\* both channels and every field of the state as they are, its records have no
\* receiver either, a channel is empty when it is installed and nothing is
\* queued for a receiver that is gone; and the thread can always take its next
\* step, up to its end.
C36_OldWorkerCutOff ==
    /\ [][\A r \in Runs :
              (IsRun(workers[r]) /\ r # status_receiver /\ WorkerStep(r)) =>
                  /\ uploaded_files_receiver # r
                  /\ chan' = chan
                  /\ fchan' = fchan
                  /\ UNCHANGED << progress, current_file, file_statuses, uploaded_files,
                                  error_message, is_uploading, is_deleting,
                                  status_receiver, uploaded_files_receiver >>]_vars
    /\ [][(status_receiver' # status_receiver /\ status_receiver' # 0) =>
              chan'[status_receiver'] = << >>]_vars
    /\ [](\A r \in Runs :
              r # status_receiver =>
                  /\ chan[r] = << >>
                  /\ (IsRun(workers[r]) /\ workers[r].pc # "done") => ENABLED WorkerStep(r))

\* After Clear All the thread of a delete run has gone through its upload
\* phase to its end: it has passed statuses to its sender, and the state is the
\* cleared one.
C36_Witness ==
    /\ status_receiver = 0
    /\ progress = NotStarted
    /\ file_statuses = << >>
    /\ current_file = NoName
    /\ \E r \in Runs :
          /\ workers[r].kind = "delete"
          /\ workers[r].pc = "done"
          /\ \E i \in 1..Len(workers[r].emitted) : workers[r].emitted[i].status = "Success"

\* ------------------------------------------------------------------ delete and reupload, twice
\* The program from the state an upload run leaves behind: a folder of one to
\* MaxReuploadFiles supported files was uploaded, every file with Success, the thread
\* has ended, the records and every status have been received.  The ended
\* thread is thread MaxRuns, so that two more runs fit, and its records carry
\* remote ids << 0, i >>, which no later run is given; the only button used is
\* Delete & Reupload.
MaxReuploadFiles == 1

RECURSIVE FilePairs(_)
FilePairs(n) ==
    IF n = 0 THEN << >>
    ELSE FilePairs(n - 1) \o << Processing(FileName(n)), Success(FileName(n)) >>

InitReupload ==
    \E n \in 1..MaxReuploadFiles :
        LET folder == [some |-> TRUE, n |-> n, rejected |-> 0]
            records == [i \in 1..n |-> UploadedFile(FileName(i), << 0, i >>)]
            sent == << Processing(TestName(1)) >> \o FilePairs(n)
        IN  /\ curl_text = GoodText
            /\ curl_parser = ParsedTexts[GoodText].parser
            /\ folder_path = folder
            /\ progress = Completed(n, n, 0, 0)
            /\ current_file = EmptyName
            /\ file_statuses = Append(sent, Success(EmptyName))
            /\ uploaded_files = records
            /\ error_message = None
            /\ is_uploading = FALSE
            /\ is_deleting = FALSE
            /\ status_receiver = MaxRuns
            /\ uploaded_files_receiver = 0
            /\ keep_config = NoConfig
            /\ selected_sections = << >>
            /\ chan = [r \in Runs |-> << >>]
            /\ fchan = [r \in Runs |-> << >>]
            /\ workers = [r \in Runs |->
                             IF r = MaxRuns
                             THEN [UploadWorker(folder) EXCEPT !.pc = "done", !.idx = n + 1,
                                                               !.uploaded = records,
                                                               !.emitted = sent]
                             ELSE NoWorker]
            /\ runs = 0
            /\ fg_pc = "idle"
            /\ call = NoCall

\* The steps of the thread delete_and_reupload spawns.
ReuploadStep(r) ==
    \/ DeleteResponse(r)
    \/ PfStart(r)
    \/ ProbePre(r)
    \/ ProbeResponse(r)
    \/ ProbeCleanup(r)
    \/ FileBegin(r)
    \/ FilePre(r)
    \/ FileResponse(r)
    \/ Forward(r)

NextReupload ==
    \/ delete_and_reupload
    \/ UpdateStateBegin
    \/ UpdateStateRecv
    \/ \E r \in Runs : ReuploadStep(r)

SpecReupload == InitReupload /\ [][NextReupload]_vars

\* C37: delete_and_reupload and everything that follows it leave uploaded_files
\* as it is; the thread of a delete run has captured exactly that list, so each
\* call issues delete requests for the same records; and the records the
\* reupload's process_files collects are not the list.
C37_UploadedFilesKept ==
    /\ [][uploaded_files' = uploaded_files]_vars
    /\ [](\A r \in Runs :
              workers[r].kind = "delete" =>
                  /\ workers[r].dels = uploaded_files
                  /\ workers[r].uploaded # << >> => workers[r].uploaded # uploaded_files)

\* A second delete run has got Success for its delete requests, which were for
\* the records the first one had deleted, after the first one's reupload
\* collected records of its own.
C37_Witness ==
    /\ runs = 2
    /\ status_receiver = 2
    /\ workers[2].kind = "delete"
    /\ workers[2].idx > Len(workers[2].dels)
    /\ progress.kind = "Completed"
    /\ progress.successful = Len(uploaded_files)
    /\ workers[2].dels = uploaded_files
    /\ workers[1].kind = "delete"
    /\ workers[1].uploaded # << >>
    /\ workers[1].dels = workers[2].dels

\* C39: a poll never waits: its first half can run whenever the foreground is
\* idle and its loop can take its next step whenever it is in it; a first half
\* that finds no records receiver or no records, and a loop iteration that
\* finds the status channel empty, leave progress, file_statuses,
\* uploaded_files, error_message, current_file and both flags as they are; and
\* the poll returns at once when no status receiver is installed or the status
\* channel is empty.
C39_EmptyPollChangesNothing ==
    /\ [][(\/ (/\ UpdateStateBegin
                /\ (uploaded_files_receiver = 0 \/ fchan[uploaded_files_receiver] = << >>))
           \/ (UpdateStateRecv /\ chan[status_receiver] = << >>)) =>
              /\ UNCHANGED << progress, file_statuses, uploaded_files, error_message,
                              current_file, is_uploading, is_deleting >>
              /\ (status_receiver = 0 \/ fg_pc = "drain") => fg_pc' = "idle"]_vars
    /\ [](fg_pc = "idle" => ENABLED UpdateStateBegin)
    /\ [](fg_pc = "drain" => (status_receiver # 0 /\ ENABLED UpdateStateRecv))

\* In the middle of an upload run a poll is in its loop and the status channel
\* is empty, the records have not been sent.
C39_Witness ==
    /\ fg_pc = "drain"
    /\ chan[status_receiver] = << >>
    /\ uploaded_files_receiver = status_receiver
    /\ fchan[uploaded_files_receiver] = << >>
    /\ progress.kind = "Uploading"
    /\ progress.current > 0
    /\ is_uploading

\* ------------------------------------------------------------------ start_upload alone
\* start_upload applied to states given directly: the state after construction
\* or the state a completed upload run of one to MaxFiles files leaves behind
\* (its ended thread is thread MaxRuns, its remote ids are << 0, i >>), with any
\* of the request texts in the text box and any folder, or none, picked.
InitStartUpload ==
    \E n \in 0..MaxFiles :
        LET records == [i \in 1..n |-> UploadedFile(FileName(i), << 0, i >>)]
            sent == << Processing(TestName(1)) >> \o FilePairs(n)
        IN  /\ curl_text \in CurlTexts
            /\ curl_parser \in { NewParser, ParsedTexts[GoodText].parser }
            /\ (n > 0 => curl_parser # NewParser)
            /\ folder_path \in Folders \cup { NoFolder }
            /\ progress = IF n = 0 THEN NotStarted ELSE Completed(n, n, 0, 0)
            /\ current_file = IF n = 0 THEN NoName ELSE EmptyName
            /\ file_statuses = IF n = 0 THEN << >> ELSE Append(sent, Success(EmptyName))
            /\ uploaded_files = records
            /\ error_message = None
            /\ is_uploading = FALSE
            /\ is_deleting = FALSE
            /\ status_receiver = IF n = 0 THEN 0 ELSE MaxRuns
            /\ uploaded_files_receiver = 0
            /\ keep_config = NoConfig
            /\ selected_sections = << >>
            /\ chan = [r \in Runs |-> << >>]
            /\ fchan = [r \in Runs |-> << >>]
            /\ workers = [r \in Runs |->
                             IF n > 0 /\ r = MaxRuns
                             THEN [UploadWorker([some |-> TRUE, n |-> n, rejected |-> 0])
                                       EXCEPT !.pc = "done", !.idx = n + 1,
                                              !.uploaded = records, !.emitted = sent]
                             ELSE NoWorker]
            /\ runs = 0
            /\ fg_pc = "idle"
            /\ call = NoCall

\* self.start_upload() on the text and the folder the state holds.
StartUploadCall ==
    /\ call.op = "none"
    /\ StartUpload(curl_text, folder_path)
    /\ call' = [call EXCEPT !.op = "start_upload"]
    /\ fg_pc' = fg_pc

NextStartUpload == StartUploadCall

SpecStartUpload == InitStartUpload /\ [][NextStartUpload]_vars

MaxKeepLines == 4

KeepContents ==
    LET KeepLineSet ==
            { << "a", ":" >>, << "b", ":" >>, << ":" >>, << "p" >>, << " ", "q", " " >>, << >> }
    IN  UNION { { IF k = 0 THEN << >> ELSE Tail(JoinLines(ls)) : ls \in [1..k -> KeepLineSet] } :
                  k \in 0..MaxKeepLines }

InitLoad ==
    /\ curl_text = EmptyText
    /\ curl_parser = NewParser
    /\ folder_path = NoFolder
    /\ progress = NotStarted
    /\ current_file = NoName
    /\ file_statuses = << >>
    /\ uploaded_files = << >>
    /\ error_message = None
    /\ is_uploading = FALSE
    /\ is_deleting = FALSE
    /\ status_receiver = 0
    /\ uploaded_files_receiver = 0
    /\ keep_config = NoConfig
    /\ selected_sections = << >>
    /\ chan = [r \in Runs |-> << >>]
    /\ fchan = [r \in Runs |-> << >>]
    /\ workers = [r \in Runs |-> NoWorker]
    /\ runs = 0
    /\ fg_pc = "idle"
    /\ \E file \in { NoKeepFile } \cup { KeepFile(content) : content \in KeepContents } :
          call = [NoCall EXCEPT !.content = file]

\* self.state.keep_config = ClaudeKeepConfig::from_file(path);
\* self.state.selected_sections.clear()
FromFileCall ==
    /\ call.op = "none"
    /\ keep_config' = from_file(PickedFolder, call.content)
    /\ selected_sections' = << >>
    /\ call' = [call EXCEPT !.op = "from_file"]
    /\ UNCHANGED << curl_text, curl_parser, folder_path, progress, current_file, file_statuses,
                    uploaded_files, error_message, is_uploading, is_deleting, status_receiver,
                    uploaded_files_receiver, chan, fchan, workers, runs, fg_pc >>

NextLoad == FromFileCall

SpecLoad == InitLoad /\ [][NextLoad]_vars

\* The lines of a file that are not blank, without the blanks around them, and
\* among them the headers: the lines that end with ':'.
IsNotBlank(line) == line # << >>
KeepLinesOf(content) ==
    SelectSeq([i \in 1..Len(Split(content, << "\n" >>)) |->
                   Trim(Split(content, << "\n" >>)[i])], IsNotBlank)
IsHeader(line) == line[Len(line)] = ":"
HeaderName(line) == SubSeq(line, 1, Len(line) - 1)

\* The pattern lines that follow the header at h up to the next header.
RECURSIVE PatternsFrom(_, _)
PatternsFrom(lines, k) ==
    IF k > Len(lines) \/ IsHeader(lines[k]) THEN << >>
    ELSE << lines[k] >> \o PatternsFrom(lines, k + 1)

\* The header at h is the last one of its name.
IsLastHeader(lines, h) ==
    /\ IsHeader(lines[h])
    /\ \A k \in (h + 1)..Len(lines) :
          IsHeader(lines[k]) => HeaderName(lines[k]) # HeaderName(lines[h])

\* C29: the section list of a loaded config holds each name once, the names in
\* the order of their first headers, and the patterns of a name that is
\* repeated are those of its last header.
C29_SectionsUnique ==
    (call.op = "from_file" /\ keep_config.some) =>
        LET lines == KeepLinesOf(call.content.content)
            sections == keep_config.sections
        IN  /\ \A i, j \in 1..Len(sections) : sections[i] = sections[j] => i = j
            /\ { sections[i] : i \in 1..Len(sections) } =
                   { HeaderName(lines[h]) : h \in { k \in 1..Len(lines) : IsHeader(lines[k]) } }
            /\ \A i, j \in 1..Len(sections) :
                   i < j =>
                       \E h \in 1..Len(lines) :
                           /\ IsHeader(lines[h]) /\ HeaderName(lines[h]) = sections[i]
                           /\ \A k \in 1..h :
                                  IsHeader(lines[k]) => HeaderName(lines[k]) # sections[j]
            /\ \A h \in 1..Len(lines) :
                   (IsLastHeader(lines, h) /\ HeaderName(lines[h]) # << >>) =>
                       keep_config.patterns[HeaderName(lines[h])] = PatternsFrom(lines, h + 1)

\* C30: the patterns of a section are the lines that are neither blank nor
\* headers from its last header up to the next header, in file order, for
\* every header, the bare ':' too; the lines before the first header are in no
\* list.
C30_PatternsFollowHeader ==
    (call.op = "from_file" /\ keep_config.some) =>
        LET lines == KeepLinesOf(call.content.content)
        IN  /\ DOMAIN keep_config.patterns =
                   { HeaderName(lines[h]) : h \in { k \in 1..Len(lines) : IsHeader(lines[k]) } }
            /\ \A h \in 1..Len(lines) :
                   IsLastHeader(lines, h) =>
                       keep_config.patterns[HeaderName(lines[h])] = PatternsFrom(lines, h + 1)

====
